---- MODULE Spec2Model ----
(***************************************************************************)
(* Snapshot store and sync service of the OmAcademy schedule backend.      *)
(*                                                                         *)
(* The database collections (groups, teachers, lessons, meta, syncRuns),   *)
(* one SyncService instance running SyncService.run step by step (every    *)
(* await is a step at which other activity can interleave) and one reader  *)
(* performing the two-step reads of ScheduleRepository.getActive*.         *)
(*                                                                         *)
(* Modelling notes:                                                        *)
(*  - syncId is startedAt.toISOString(); successive runs of one instance   *)
(*    get increasing identifiers, modelled as 1, 2, 3, ...                 *)
(*  - a date is the ISO string "YYYY-MM-DD", modelled as <<y, m, d>>; the  *)
(*    string comparison of MongoDB ($lt) is the lexicographic comparison.  *)
(*  - query results are sets; the sort order of a result is not modelled.  *)
(*  - each deleteMany is one step; each operation of an unordered          *)
(*    bulkWrite is one step, taken in any order.                           *)
(***************************************************************************)
EXTENDS Integers, Sequences, FiniteSets, Bags, TLC

\* ------------------------------------------------------------------ bounds
\* runs started in a behaviour of SpecRuns (the sync service alone)
MaxRuns == 3

\* runs started in a behaviour of Spec (the sync service and a reader)
MaxRunsWithReader == 2

\* meta.activeSyncId when no pointer document exists
NoRun == 0

\* filters.date not given
NoDate == <<>>

\* ------------------------------------------------------------------- dates
IsLeap(y) == (y % 4 = 0 /\ y % 100 # 0) \/ y % 400 = 0

DaysInMonth(y, m) ==
  IF m = 2 THEN (IF IsLeap(y) THEN 29 ELSE 28)
  ELSE IF m \in {4, 6, 9, 11} THEN 30 ELSE 31

\* Date.setUTCDate(getUTCDate() - 1) followed by toISOString().slice(0, 10)
PrevDay(d) ==
  IF d[3] > 1 THEN <<d[1], d[2], d[3] - 1>>
  ELSE IF d[2] > 1 THEN <<d[1], d[2] - 1, DaysInMonth(d[1], d[2] - 1)>>
  ELSE <<d[1] - 1, 12, 31>>

\* Date.setUTCDate(getUTCDate() + 1) followed by toISOString().slice(0, 10)
NextDay(d) ==
  IF d[3] < DaysInMonth(d[1], d[2]) THEN <<d[1], d[2], d[3] + 1>>
  ELSE IF d[2] < 12 THEN <<d[1], d[2] + 1, 1>>
  ELSE <<d[1] + 1, 1, 1>>

RECURSIVE shiftIsoDate(_, _)
shiftIsoDate(isoDate, deltaDays) ==
  IF deltaDays = 0 THEN isoDate
  ELSE IF deltaDays < 0 THEN shiftIsoDate(PrevDay(isoDate), deltaDays + 1)
  ELSE shiftIsoDate(NextDay(isoDate), deltaDays - 1)

\* comparison of two ISO date strings, as MongoDB compares strings
IsoLt(a, b) ==
  \/ a[1] < b[1]
  \/ a[1] = b[1] /\ a[2] < b[2]
  \/ a[1] = b[1] /\ a[2] = b[2] /\ a[3] < b[3]

\* --------------------------------------------------------- scraped inputs
\* a lesson as the group page reports it, the same lesson as the page of its
\* teacher reports it (fetchTeacherLessons gives it the synthetic groupCode
\* tp:<groupName>), a lesson of the next day, and that lesson as the page of
\* the group reports it when the roster links the page a second time and the
\* h1 title of the page has changed between the two fetches
LessonCg == [groupCode |-> "101", groupName |-> "IS-11", date |-> <<2026, 2, 13>>,
             lessonNumber |-> 2, columnIndex |-> 1, subject |-> "Math",
             room |-> "12", teacher |-> "Ivanov A.B.", sourceUrl |-> "cg101.htm"]

LessonCp == [LessonCg EXCEPT !.groupCode = "tp:IS-11", !.sourceUrl = "cp7.htm"]

LessonNext == [LessonCg EXCEPT !.date = <<2026, 2, 14>>]

LessonNextAgain == [LessonNext EXCEPT !.groupName = "IS-11a"]

\* what the scraper calls of one run can return: groups of the roster cg.htm,
\* teachers of the roster cp.htm (none when fetchTeachers fails) and the
\* concatenated lessons of the group pages and the teacher pages
Scrapes ==
  { [groups |-> {}, roster |-> {}, lessons |-> <<>>],
    [groups |-> { [code |-> "101", name |-> "IS-11"] },
     roster |-> {},
     lessons |-> <<LessonNext, LessonNextAgain>>],
    [groups |-> { [code |-> "101", name |-> "IS-11"] },
     roster |-> { [code |-> "7", name |-> "Ivanov A.B."] },
     lessons |-> <<LessonCg, LessonNext, LessonCp>>] }

EmptyPayload == [groups |-> {}, teachers |-> {}, lessons |-> <<>>]

\* cleanupOldLessons has not returned
NoCleanup == [today |-> NoDate, keepFromDate |-> NoDate, deletedCount |-> 0]

\* the dates getIsoDateInTimezone returns to the sweep of a run
Todays == { <<2026, 2, 15>> }

\* String.prototype.toLowerCase on the teacher names of the scraped lessons
ToLowerCase(name) == IF name = "Ivanov A.B." THEN "ivanov a.b." ELSE name

\* buildTeachersSnapshot: the roster under key cp:<code>, then the teacher of
\* every lesson under key name:<lowercased name>
buildTeachersSnapshot(lessonList, sourceTeachers) ==
  { [key |-> <<"cp", t.code>>, code |-> t.code, name |-> t.name] :
      t \in sourceTeachers }
    \cup { [key |-> <<"name", ToLowerCase(lessonList[i].teacher)>>, code |-> "null",
            name |-> lessonList[i].teacher] : i \in DOMAIN lessonList }

ReadKinds == { "groups", "teachers", "lessons" }

\* ------------------------------------------------------------------ state
VARIABLES
  groups,      \* collection groups: rows [code, name, lastSeenSyncId]
  teachers,    \* collection teachers: rows [key, code, name, lastSeenSyncId]
  lessons,     \* collection lessons: rows with syncId and the lesson fields
  meta,        \* activeSyncId of the document {_id: "schedule"}, or NoRun
  syncRuns,    \* collection syncRuns: syncId -> status
  running,     \* SyncService.running
  lastError,   \* SyncService.lastError
  lastResult,  \* SyncService.lastResult
  pc,          \* position of the run inside SyncService.run
  syncId,      \* syncId of the current (or last) run
  clock,       \* number of runs started so far
  payload,     \* groups, teachers and lessons scraped by the current run
  pending,     \* operations of the current bulkWrite not yet applied
  cleanup,     \* today, keepFromDate and deletedCount of cleanupOldLessons
  rpc,         \* position of the reader inside getActive*
  rkind,       \* which of getActiveGroups/Teachers/Lessons the reader runs
  rmeta,       \* activeSyncId the reader obtained from getActiveSyncMeta
  rresult,     \* rows returned to the reader
  rsawOther,   \* history: the query ran over rows of another run as well
  startView,   \* history: what readers were served when the run started
  failedAt,    \* history: step at which the current run threw, or "none"
  ptrWrites,   \* history: writes of the pointer by the current run
  reclaimed,   \* history: <<collection, run tag>> of the rows this run's GC deleted
  runLimit,    \* bound of the exploration: runs a behaviour may start
  inFlight,    \* history: calls of run() past the guard that have not returned
  returned,    \* history: what the last call of run() to return has returned
               \* since the run in progress began ("none": no call has)
  stage,       \* which scraper call the run awaits inside its fetch phase
  http,        \* the fetchHtml call of the run (slot 0) and of each worker
  scraped,     \* locals of run(): groups, lessons and roster fetched so far
  exhausted,   \* history: paths whose fetchHtml call has thrown in this run
  orphans,     \* the pools of mapLimit calls that have rejected while workers
               \* of theirs still await a fetch
  items,       \* mapLimit: items
  limit,       \* mapLimit: limit
  cursor,      \* mapLimit: cursor (1-based: the next index to take)
  workers,     \* mapLimit: state and current index of every worker()
  result,      \* mapLimit: result
  settled,     \* mapLimit: state of the promise Promise.all(workers)
  invoked,     \* history: how often the iterator was invoked on each index
  ticks,       \* per ReminderService instance: running and the locals of runTick
  ledger,      \* collection reminderLogs (unique index on reminderKey)
  sends,       \* history: bag of the api.sendText calls made, with outcome
  wall,        \* the wall clock: index of the current minute in Minutes
  arg,         \* the argument of the function call under study
  out,         \* what the call has computed so far
  done         \* TRUE once the call has returned

dbVars == <<groups, teachers, lessons, meta, syncRuns>>
svcVars ==
  <<running, lastError, lastResult, pc, syncId, clock, payload, pending, cleanup>>
readerVars == <<rpc, rkind, rmeta, rresult, rsawOther>>
histVars == <<startView, failedAt, ptrWrites, reclaimed, runLimit>>
callVars == <<inFlight, returned>>
fetchVars == <<stage, http, scraped, exhausted, orphans>>
poolVars == <<items, limit, cursor, workers, result, settled, invoked>>
remVars == <<ticks, ledger, sends, wall>>
callStateVars == <<arg, out, done>>
outerVars == <<fetchVars, poolVars, remVars, callStateVars>>
syncVars == <<dbVars, svcVars, readerVars, histVars, callVars>>
vars == <<dbVars, svcVars, readerVars, histVars, callVars, outerVars>>

\* ------------------------------------------------------------- repository
\* filter of the lessons upsert: the natural key of uniq_lesson_by_sync
LessonKeyMatch(row, sid, lesson) ==
  /\ row.syncId = sid
  /\ row.groupCode = lesson.groupCode
  /\ row.date = lesson.date
  /\ row.lessonNumber = lesson.lessonNumber
  /\ row.columnIndex = lesson.columnIndex
  /\ row.subject = lesson.subject
  /\ row.room = lesson.room
  /\ row.teacher = lesson.teacher

LessonRow(sid, lesson) ==
  [syncId |-> sid, groupCode |-> lesson.groupCode, groupName |-> lesson.groupName,
   date |-> lesson.date, lessonNumber |-> lesson.lessonNumber,
   columnIndex |-> lesson.columnIndex, subject |-> lesson.subject,
   room |-> lesson.room, teacher |-> lesson.teacher, sourceUrl |-> lesson.sourceUrl]

\* an insert that does not look for the row first
UpsertLessonBlind(ls, sid, lesson) == ls \cup { LessonRow(sid, lesson) }

\* updateOne {filter: natural key, $setOnInsert, upsert: true}
UpsertLesson(ls, sid, lesson) ==
  IF \E row \in ls : LessonKeyMatch(row, sid, lesson)
  THEN ls
  ELSE ls \cup { LessonRow(sid, lesson) }

\* updateOne {filter: {code}, $set: {..., lastSeenSyncId}, upsert: true}
UpsertGroup(gs, sid, group) ==
  { row \in gs : row.code # group.code }
    \cup { [code |-> group.code, name |-> group.name, lastSeenSyncId |-> sid] }

\* updateOne {filter: {key}, $set: {..., lastSeenSyncId}, upsert: true}
UpsertTeacher(ts, sid, teacher) ==
  { row \in ts : row.key # teacher.key }
    \cup { [key |-> teacher.key, code |-> teacher.code, name |-> teacher.name,
            lastSeenSyncId |-> sid] }

\* a sweep that deletes only the rows of the run before
GcLessonsPreviousOnly(ls, sid) == { row \in ls : row.syncId # sid - 1 }

\* lessons.deleteMany({syncId: {$ne: syncId}})
GcLessons(ls, sid) == { row \in ls : row.syncId = sid }

\* a sweep that deletes nothing
GcLastSeenKeepAll(rows, sid) == rows

\* groups.deleteMany / teachers.deleteMany ({lastSeenSyncId: {$ne: syncId}})
GcLastSeen(rows, sid) == { row \in rows : row.lastSeenSyncId = sid }

\* a find() without the lastSeenSyncId condition
ReadGroupsAnyRun(gs, active) == IF active = NoRun THEN {} ELSE gs

\* groups.find({lastSeenSyncId: activeSyncId}); [] without a pointer
ReadGroups(gs, active) ==
  IF active = NoRun THEN {} ELSE { row \in gs : row.lastSeenSyncId = active }

\* teachers.find({lastSeenSyncId: activeSyncId}); [] without a pointer
ReadTeachers(ts, active) ==
  IF active = NoRun THEN {} ELSE { row \in ts : row.lastSeenSyncId = active }

\* a find() made whether or not a pointer document exists
ReadLessonsNoPointer(ls, active, dateFilter) ==
  { row \in ls : /\ (active # NoRun => row.syncId = active)
                  /\ (dateFilter # NoDate => row.date = dateFilter) }

\* a find() without the syncId condition
ReadLessonsAnyRun(ls, active, dateFilter) ==
  IF active = NoRun THEN {}
  ELSE { row \in ls : dateFilter # NoDate => row.date = dateFilter }

\* lessons.find({syncId: activeSyncId, date?}); [] without a pointer
ReadLessons(ls, active, dateFilter) ==
  IF active = NoRun THEN {}
  ELSE { row \in ls : /\ row.syncId = active
                      /\ (dateFilter # NoDate => row.date = dateFilter) }

\* a sweep with $lte in place of $lt
DeleteActiveLessonsThrough(ls, active, keepFromDate) ==
  IF active = NoRun THEN ls
  ELSE { row \in ls : ~(row.syncId = active /\ ~IsoLt(keepFromDate, row.date)) }

\* lessons.deleteMany({syncId: activeSyncId, date: {$lt: keepFromDate}})
DeleteActiveLessonsOlderThan(ls, active, keepFromDate) ==
  IF active = NoRun THEN ls
  ELSE { row \in ls : ~(row.syncId = active /\ IsoLt(row.date, keepFromDate)) }

\* an update with upsert: true
FinishSyncRunUpsert(runs, sid, status) == (sid :> status) @@ runs

\* syncRuns.updateOne({syncId}, {$set: {status}}): no upsert
FinishSyncRun(runs, sid, status) ==
  IF sid \in DOMAIN runs THEN [runs EXCEPT ![sid] = status] ELSE runs

\* what the three read operations serve when they run without interleaving
View(active) ==
  [activeSyncId |-> active,
   groups |-> ReadGroups(groups, active),
   teachers |-> ReadTeachers(teachers, active),
   lessons |-> ReadLessons(lessons, active, NoDate)]

\* ------------------------------------------------------------ sync service
\* saveSnapshot with the pointer written before the lessons
RunOrderPromoteEarly ==
  << "writeGroups", "writeTeachers", "promote", "writeLessons",
     "gcLessons", "gcGroups", "gcTeachers", "cleanup", "finishSuccess" >>

\* statement order of saveSnapshot, followed by cleanupOldLessons
RunOrder ==
  << "writeGroups", "writeTeachers", "writeLessons", "promote",
     "gcLessons", "gcGroups", "gcTeachers", "cleanup", "finishSuccess" >>

BulkOps(phase, pl) ==
  IF phase = "writeGroups" THEN pl.groups
  ELSE IF phase = "writeTeachers" THEN pl.teachers
  ELSE IF phase = "writeLessons" THEN DOMAIN pl.lessons
  ELSE {}

IsBulk(phase) == phase \in { "writeGroups", "writeTeachers", "writeLessons" }

\* the first step at or after position i that is not an empty bulkWrite
\* (if (groups.length > 0), if (teachers.length > 0), if (lessons.length > 0))
RECURSIVE PhaseFrom(_, _)
PhaseFrom(i, pl) ==
  IF IsBulk(RunOrder[i]) /\ BulkOps(RunOrder[i], pl) = {}
  THEN PhaseFrom(i + 1, pl)
  ELSE RunOrder[i]

IndexOf(phase) == CHOOSE i \in DOMAIN RunOrder : RunOrder[i] = phase

PhaseAfter(phase, pl) == PhaseFrom(IndexOf(phase) + 1, pl)

\* control passes to the step after `phase`
Advance(phase, pl) ==
  /\ pc' = PhaseAfter(phase, pl)
  /\ pending' = BulkOps(PhaseAfter(phase, pl), pl)

\* catch (error): this.lastError = error.message
ThrowError(message) ==
  /\ pc' = "finishFailed"
  /\ failedAt' = pc
  /\ lastError' = message
  /\ pending' = {}

\* an awaited call throws: control passes to the catch block of run()
Throw == ThrowError("error")

\* ------------------------------------------------------------ the web site
\* config.sourceBaseUrl
BaseUrl == "https://omacademy.ru/rasp-new/Website-students/"

\* buildUrl: new URL(relativePath, this.baseUrl).href
buildUrl(relativePath) == BaseUrl \o relativePath

\* response.data of a successful GET of a path: the document the site serves
\* there (a document is named by its path) or an empty body
Bodies(relativePath) == { "", relativePath }

\* fetchGroups: the anchors a.z0 of cg.htm
ParseGroups(html) ==
  IF html = "cg.htm"
  THEN << [code |-> "101", name |-> "IS-11", href |-> "cg101.htm"] >>
  ELSE <<>>

\* fetchTeachers: the anchors a.z0 of cp.htm
ParseTeachers(html) ==
  IF html = "cp.htm"
  THEN << [code |-> "7", name |-> "Ivanov A.B.", href |-> "cp7.htm"] >>
  ELSE <<>>

\* fetchGroupLessons: the rows of table.inf of the page of a group
ParseGroupLessons(html, group) ==
  [group |-> group,
   lessons |-> IF html = "cg101.htm" THEN <<LessonCg, LessonNext>> ELSE <<>>]

\* fetchTeacherLessons: the rows of table.inf of the page of a teacher
ParseTeacherLessons(html, teacher) ==
  [teacher |-> teacher,
   lessons |-> IF html = "cp7.htm" THEN <<LessonCp>> ELSE <<>>]

\* ---------------------------------------------------------------- fetchHtml
\* for (let attempt = 1; attempt <= 3; attempt += 1)
MaxAttempts == 3

\* setTimeout(resolve, 300 * attempt)
BackoffMs == 300

\* config.maxConcurrentRequests, the limit the scraper passes to mapLimit
maxConcurrentRequests == 5

\* the slots of the fetchHtml calls in flight: 0 for the call run() awaits
\* itself, w for the call worker w of mapLimit awaits
Slots == 0..maxConcurrentRequests

NoCall == [path |-> "", url |-> "", attempt |-> 0, at |-> "idle", html |-> "",
           error |-> "", log |-> <<>>]

\* entry of fetchHtml: url = buildUrl(relativePath), attempt = 1, the first GET
fetchHtml(relativePath) ==
  [path |-> relativePath, url |-> buildUrl(relativePath), attempt |-> 1,
   at |-> "get", html |-> "", error |-> "", log |-> <<>>]

GetEvent(n, succeeded) == [kind |-> "get", attempt |-> n, ok |-> succeeded, ms |-> 0]
WaitEvent(n, delay) == [kind |-> "wait", attempt |-> n, ok |-> FALSE, ms |-> delay]

\* a loop that never takes the break
isLastAttemptNever(attempt) == FALSE

\* const isLastAttempt = attempt === 3
isLastAttempt(attempt) == attempt = 3

\* throw new Error(`Failed to fetch ${url}: ...`)
FetchError(url) == "Failed to fetch " \o url

\* the call after await this.http.get(url) has resolved with a body
AfterGetResolved(call, body) ==
  [call EXCEPT !.at = "returned", !.html = body,
               !.log = Append(call.log, GetEvent(call.attempt, TRUE))]

\* the call after await this.http.get(url) has rejected: break and throw on
\* the last attempt, else setTimeout(resolve, 300 * attempt)
AfterGetRejected(call) ==
  IF isLastAttempt(call.attempt)
  THEN [call EXCEPT !.at = "thrown", !.error = FetchError(call.url),
                    !.log = Append(call.log, GetEvent(call.attempt, FALSE))]
  ELSE [call EXCEPT !.at = "sleep",
                    !.log = Append(Append(call.log, GetEvent(call.attempt, FALSE)),
                                   WaitEvent(call.attempt, BackoffMs * call.attempt))]

\* the call after the timer has fired: attempt += 1; attempt <= 3
AfterTimer(call) ==
  IF call.attempt + 1 <= MaxAttempts
  THEN [call EXCEPT !.attempt = call.attempt + 1, !.at = "get"]
  ELSE [call EXCEPT !.attempt = call.attempt + 1, !.at = "thrown",
                    !.error = FetchError(call.url)]

\* ----------------------------------------------------------------- mapLimit
\* new Array(items.length): a slot of result not assigned yet
Undefined == [undefined |-> TRUE]

\* const safeLimit = Math.max(1, limit)
safeLimit(lim) == IF lim > 1 THEN lim ELSE 1

\* a pool with one worker for every item
WorkerCountUnbounded(its, lim) == Len(its)

\* Array.from({length: Math.min(safeLimit, items.length)}, () => worker())
WorkerCount(its, lim) ==
  IF safeLimit(lim) < Len(its) THEN safeLimit(lim) ELSE Len(its)

NoPool == [items |-> <<>>, limit |-> 0, cursor |-> 1, workers |-> <<>>,
           result |-> <<>>, settled |-> "none", invoked |-> <<>>]

\* mapLimit(items, limit, iterator) at the moment it returns its promise: every
\* worker has taken its first index (worker w the index w) and invoked the
\* iterator on it; for no items the promise is resolved at once
mapLimit(its, lim) ==
  IF its = <<>>
  THEN [NoPool EXCEPT !.limit = lim, !.settled = "resolved"]
  ELSE [items |-> its, limit |-> lim,
        cursor |-> WorkerCount(its, lim) + 1,
        workers |-> [w \in 1..WorkerCount(its, lim) |->
                       [st |-> "awaiting", index |-> w]],
        result |-> [i \in 1..Len(its) |-> Undefined],
        settled |-> "pending",
        invoked |-> [i \in 1..Len(its) |->
                       IF i <= WorkerCount(its, lim) THEN 1 ELSE 0]]

\* the state of mapLimit as one record
Pool ==
  [items |-> items, limit |-> limit, cursor |-> cursor, workers |-> workers,
   result |-> result, settled |-> settled, invoked |-> invoked]

\* a worker that stores the outcome at the index the cursor has reached
WorkerResolvedAtCursor(pool, w, value) ==
  [pool EXCEPT
     !.result = [pool.result EXCEPT
                   ![IF pool.cursor <= Len(pool.items) THEN pool.cursor
                     ELSE pool.workers[w].index] = value],
     !.cursor = pool.cursor + 1,
     !.workers = [pool.workers EXCEPT ![w] =
                    IF pool.cursor <= Len(pool.items)
                    THEN [st |-> "awaiting", index |-> pool.cursor]
                    ELSE [st |-> "returned", index |-> 0]],
     !.invoked = IF pool.cursor <= Len(pool.items)
                 THEN [pool.invoked EXCEPT ![pool.cursor] = @ + 1]
                 ELSE pool.invoked]

\* worker(): result[index] = await iterator(items[index], index), then the
\* next turn of its loop: index = cursor; cursor += 1; return if
\* index >= items.length, else invoke the iterator on items[index]
WorkerResolved(pool, w, value) ==
  [pool EXCEPT
     !.result = [pool.result EXCEPT ![pool.workers[w].index] = value],
     !.cursor = pool.cursor + 1,
     !.workers = [pool.workers EXCEPT ![w] =
                    IF pool.cursor <= Len(pool.items)
                    THEN [st |-> "awaiting", index |-> pool.cursor]
                    ELSE [st |-> "returned", index |-> 0]],
     !.invoked = IF pool.cursor <= Len(pool.items)
                 THEN [pool.invoked EXCEPT ![pool.cursor] = @ + 1]
                 ELSE pool.invoked]

\* Promise.all(workers).then(() => result): resolved once every worker has
\* returned, rejected as soon as one worker has rejected
PromiseAll(pool) ==
  [pool EXCEPT !.settled =
     IF pool.settled # "pending" THEN pool.settled
     ELSE IF \E w \in DOMAIN pool.workers : pool.workers[w].st = "rejected"
       THEN "rejected"
     ELSE IF \A w \in DOMAIN pool.workers : pool.workers[w].st = "returned"
       THEN "resolved"
     ELSE "pending"]

\* worker(): the awaited iterator throws, worker() rejects
WorkerRejected(pool, w) ==
  [pool EXCEPT !.workers = [pool.workers EXCEPT ![w] =
                              [st |-> "rejected", index |-> pool.workers[w].index]]]

\* the variables of mapLimit take the fields of a record
SetPool(pool) ==
  /\ items' = pool.items
  /\ limit' = pool.limit
  /\ cursor' = pool.cursor
  /\ workers' = pool.workers
  /\ result' = pool.result
  /\ settled' = pool.settled
  /\ invoked' = pool.invoked

\* locals of run() before fetchGroups has returned
NoScrape == [groups |-> <<>>, normalizedGroups |-> {}, groupLessons |-> <<>>,
             teachersDirectory |-> <<>>, teacherLessons |-> <<>>]

\* no run is inside its fetch phase and mapLimit has not been called
InitFetchIdle ==
  /\ stage = "none"
  /\ http = [s \in Slots |-> NoCall]
  /\ scraped = NoScrape
  /\ exhausted = {}
  /\ orphans = <<>>
  /\ items = NoPool.items /\ limit = NoPool.limit /\ cursor = NoPool.cursor
  /\ workers = NoPool.workers /\ result = NoPool.result
  /\ settled = NoPool.settled /\ invoked = NoPool.invoked

\* ----------------------------------------------------- reminder service
\* this.lessonStartTimes: parseLessonStartTimes of the configured (default)
\* value "1=08:00,2=10:00,3=12:00,4=14:00,5=16:00,6=17:50"
lessonStartTimes ==
  (1 :> "08:00") @@ (2 :> "10:00") @@ (3 :> "12:00") @@ (4 :> "14:00")
    @@ (5 :> "16:00") @@ (6 :> "17:50")

\* the ReminderService instances that tick against the one database
Dispatchers == { 1, 2 }

\* the minutes the wall clock goes through, as getTimezoneNow reports them
Minutes ==
  << [isoDate |-> <<2026, 2, 11>>, hhmm |-> "10:00"],
     [isoDate |-> <<2026, 2, 12>>, hhmm |-> "10:00"],
     [isoDate |-> <<2026, 2, 12>>, hhmm |-> "10:01"] >>

NoNow == [isoDate |-> NoDate, hhmm |-> ""]

\* an instance between ticks
NoTick == [running |-> FALSE, at |-> "idle", now |-> NoNow, active |-> {},
           work |-> <<>>, cands |-> {}, sending |-> {}, failed |-> FALSE,
           inFlight |-> 0, skipped |-> FALSE, sentCount |-> 0,
           error |-> ""]

\* no tick has run, nothing was sent
InitReminderIdle ==
  /\ ticks = [i \in Dispatchers |-> NoTick]
  /\ ledger = {}
  /\ sends = EmptyBag
  /\ wall = 1

\* no function call is under study
InitCallIdle == arg = <<>> /\ out = <<>> /\ done = FALSE

\* values of the history variables before any call of run()
InitCalls ==
  /\ inFlight = 0
  /\ returned = "none"
  /\ InitFetchIdle
  /\ InitReminderIdle
  /\ InitCallIdle

\* a guard that lets every call through
BusyNever == FALSE

\* run(): if (this.running)
Busy == running

Init ==
  /\ InitCalls
  /\ groups = {} /\ teachers = {} /\ lessons = {}
  /\ meta = NoRun
  /\ syncRuns = <<>>
  /\ running = FALSE /\ lastError = "null" /\ lastResult = "null"
  /\ pc = "idle" /\ syncId = NoRun /\ clock = 0
  /\ payload = EmptyPayload /\ pending = {} /\ cleanup = NoCleanup
  /\ rpc = "idle" /\ rkind = "groups" /\ rmeta = NoRun
  /\ rresult = {} /\ rsawOther = FALSE
  /\ startView = View(NoRun)
  /\ failedAt = "none"
  /\ ptrWrites = 0
  /\ reclaimed = {}
  /\ runLimit = MaxRunsWithReader

\* a guard placed after this.lastError = null
RunSkippedAfterReset ==
  /\ Busy
  /\ returned' = "skipped"
  /\ lastError' = "null"
  /\ UNCHANGED <<dbVars, running, lastResult, pc, syncId, clock, payload, pending,
                 cleanup, readerVars, histVars, inFlight, outerVars>>

\* run(): if (this.running) return {ok: false, skipped: true, reason}
RunSkipped ==
  /\ Busy
  /\ returned' = "skipped"
  /\ UNCHANGED <<dbVars, svcVars, readerVars, histVars, inFlight, outerVars>>

\* run(): running = true; lastError = null; syncId = startedAt.toISOString()
RunStart ==
  /\ ~Busy
  /\ clock < runLimit
  /\ inFlight' = inFlight + 1
  /\ returned' = "none"
  /\ exhausted' = {}
  /\ UNCHANGED <<stage, http, scraped, orphans, poolVars, remVars, callStateVars>>
  /\ running' = TRUE
  /\ lastError' = "null"
  /\ clock' = clock + 1
  /\ syncId' = clock + 1
  /\ pc' = "startSyncRun"
  /\ startView' = View(meta)
  /\ failedAt' = "none"
  /\ ptrWrites' = 0
  /\ UNCHANGED <<dbVars, lastResult, payload, pending, cleanup, readerVars,
                 reclaimed, runLimit>>

\* await repository.startSyncRun(syncId, trigger)
StartSyncRun ==
  /\ pc = "startSyncRun"
  /\ syncRuns' = syncRuns @@ (syncId :> "running")
  /\ pc' = "fetch"
  /\ UNCHANGED <<groups, teachers, lessons, meta, running, lastError, lastResult,
                 syncId, clock, payload, pending, cleanup, readerVars, histVars>>
  /\ UNCHANGED <<callVars, outerVars>>

\* fetchGroups, fetchAllLessons, fetchTeachers (its failure is caught and
\* leaves the roster empty), fetchAllTeacherLessons, buildTeachersSnapshot
Fetch ==
  /\ pc = "fetch"
  /\ \E scrape \in Scrapes :
       LET pl == [groups |-> scrape.groups,
                  teachers |-> buildTeachersSnapshot(scrape.lessons, scrape.roster),
                  lessons |-> scrape.lessons]
       IN /\ payload' = pl
          /\ pc' = PhaseFrom(1, pl)
          /\ pending' = BulkOps(PhaseFrom(1, pl), pl)
  /\ UNCHANGED <<dbVars, running, lastError, lastResult, syncId, clock, cleanup,
                 readerVars, histVars>>
  /\ UNCHANGED <<callVars, outerVars>>

\* one updateOne of groups.bulkWrite
WriteGroup ==
  /\ pc = "writeGroups"
  /\ \E g \in pending :
       /\ groups' = UpsertGroup(groups, syncId, g)
       /\ IF pending = {g}
          THEN Advance("writeGroups", payload)
          ELSE pc' = pc /\ pending' = pending \ {g}
  /\ UNCHANGED <<teachers, lessons, meta, syncRuns, running, lastError, lastResult,
                 syncId, clock, payload, cleanup, readerVars, histVars>>
  /\ UNCHANGED <<callVars, outerVars>>

\* one updateOne of teachers.bulkWrite
WriteTeacher ==
  /\ pc = "writeTeachers"
  /\ \E t \in pending :
       /\ teachers' = UpsertTeacher(teachers, syncId, t)
       /\ IF pending = {t}
          THEN Advance("writeTeachers", payload)
          ELSE pc' = pc /\ pending' = pending \ {t}
  /\ UNCHANGED <<groups, lessons, meta, syncRuns, running, lastError, lastResult,
                 syncId, clock, payload, cleanup, readerVars, histVars>>
  /\ UNCHANGED <<callVars, outerVars>>

\* one updateOne of lessons.bulkWrite
WriteLesson ==
  /\ pc = "writeLessons"
  /\ \E i \in pending :
       /\ lessons' = UpsertLesson(lessons, syncId, payload.lessons[i])
       /\ IF pending = {i}
          THEN Advance("writeLessons", payload)
          ELSE pc' = pc /\ pending' = pending \ {i}
  /\ UNCHANGED <<groups, teachers, meta, syncRuns, running, lastError, lastResult,
                 syncId, clock, payload, cleanup, readerVars, histVars>>
  /\ UNCHANGED <<callVars, outerVars>>

\* meta.updateOne({_id: "schedule"}, {$set: {activeSyncId: syncId}}, upsert)
Promote ==
  /\ pc = "promote"
  /\ meta' = syncId
  /\ ptrWrites' = ptrWrites + 1
  /\ Advance("promote", payload)
  /\ UNCHANGED <<groups, teachers, lessons, syncRuns, running, lastError, lastResult,
                 syncId, clock, payload, cleanup, readerVars, startView, failedAt,
                 reclaimed, runLimit>>
  /\ UNCHANGED <<callVars, outerVars>>

\* lessons.deleteMany({syncId: {$ne: syncId}})
GcLessonsStep ==
  /\ pc = "gcLessons"
  /\ lessons' = GcLessons(lessons, syncId)
  /\ reclaimed' = reclaimed \cup { <<"lessons", row.syncId>> : row \in lessons \ lessons' }
  /\ Advance("gcLessons", payload)
  /\ UNCHANGED <<groups, teachers, meta, syncRuns, running, lastError, lastResult,
                 syncId, clock, payload, cleanup, readerVars, startView, failedAt,
                 ptrWrites, runLimit>>
  /\ UNCHANGED <<callVars, outerVars>>

\* groups.deleteMany({lastSeenSyncId: {$ne: syncId}})
GcGroupsStep ==
  /\ pc = "gcGroups"
  /\ groups' = GcLastSeen(groups, syncId)
  /\ reclaimed' =
       reclaimed \cup { <<"groups", row.lastSeenSyncId>> : row \in groups \ groups' }
  /\ Advance("gcGroups", payload)
  /\ UNCHANGED <<teachers, lessons, meta, syncRuns, running, lastError, lastResult,
                 syncId, clock, payload, cleanup, readerVars, startView, failedAt,
                 ptrWrites, runLimit>>
  /\ UNCHANGED <<callVars, outerVars>>

\* teachers.deleteMany({lastSeenSyncId: {$ne: syncId}})
GcTeachersStep ==
  /\ pc = "gcTeachers"
  /\ teachers' = GcLastSeen(teachers, syncId)
  /\ reclaimed' =
       reclaimed \cup { <<"teachers", row.lastSeenSyncId>> : row \in teachers \ teachers' }
  /\ Advance("gcTeachers", payload)
  /\ UNCHANGED <<groups, lessons, meta, syncRuns, running, lastError, lastResult,
                 syncId, clock, payload, cleanup, readerVars, startView, failedAt,
                 ptrWrites, runLimit>>
  /\ UNCHANGED <<callVars, outerVars>>

\* cleanupOldLessons(): today in the timezone, keepFromDate = today - 1 day,
\* deletedCount = repository.deleteActiveLessonsOlderThan(keepFromDate);
\* the pair is the `cleanup` field of the run's result
\* the sweep takes the reminder log entries of the swept dates with it
CleanupOldLessonsAndLogs(T) ==
  /\ pc = "cleanup"
  /\ lessons' = DeleteActiveLessonsOlderThan(lessons, meta, shiftIsoDate(T, -1))
  /\ ledger' = { e \in ledger : ~IsoLt(e.date, shiftIsoDate(T, -1)) }
  /\ cleanup' = [today |-> T, keepFromDate |-> shiftIsoDate(T, -1),
                 deletedCount |-> Cardinality(lessons) - Cardinality(lessons')]
  /\ Advance("cleanup", payload)
  /\ UNCHANGED <<groups, teachers, meta, syncRuns, running, lastError, lastResult,
                 syncId, clock, payload, readerVars, histVars>>
  /\ UNCHANGED <<callVars, fetchVars, poolVars, callStateVars, ticks, sends, wall>>

CleanupOldLessons(T) ==
  /\ pc = "cleanup"
  /\ lessons' = DeleteActiveLessonsOlderThan(lessons, meta, shiftIsoDate(T, -1))
  /\ cleanup' = [today |-> T, keepFromDate |-> shiftIsoDate(T, -1),
                 deletedCount |-> Cardinality(lessons) - Cardinality(lessons')]
  /\ Advance("cleanup", payload)
  /\ UNCHANGED <<groups, teachers, meta, syncRuns, running, lastError, lastResult,
                 syncId, clock, payload, readerVars, histVars>>
  /\ UNCHANGED <<callVars, outerVars>>

\* any awaited call from startSyncRun to cleanupOldLessons throws
StepThrows ==
  /\ pc \in { "startSyncRun", "fetch", "writeGroups", "writeTeachers",
              "writeLessons", "promote", "gcLessons", "gcGroups", "gcTeachers",
              "cleanup" }
  /\ Throw
  /\ UNCHANGED <<dbVars, running, lastResult, syncId, clock, payload, cleanup,
                 readerVars, startView, ptrWrites, reclaimed, runLimit>>
  /\ UNCHANGED <<callVars, outerVars>>

\* the run has returned: its locals are gone (finally: running = false)
Return ==
  /\ running' = FALSE
  /\ pc' = "idle"
  /\ payload' = EmptyPayload
  /\ cleanup' = NoCleanup
  /\ startView' = View(NoRun)
  /\ failedAt' = "none"
  /\ ptrWrites' = 0
  /\ reclaimed' = {}
  /\ inFlight' = inFlight - 1
  /\ UNCHANGED <<runLimit, outerVars>>

\* finishSyncRun(syncId, {status: "success"}); lastResult = result; finally
FinishSuccess ==
  /\ pc = "finishSuccess"
  /\ syncRuns' = FinishSyncRun(syncRuns, syncId, "success")
  /\ lastResult' = [syncId |-> syncId, keepFromDate |-> cleanup.keepFromDate,
                    deletedCount |-> cleanup.deletedCount]
  /\ returned' = "ok"
  /\ Return
  /\ UNCHANGED <<groups, teachers, lessons, meta, lastError, syncId, clock, pending,
                 readerVars>>

\* finishSyncRun(syncId, {status: "success"}) throws
FinishSuccessThrows ==
  /\ pc = "finishSuccess"
  /\ Throw
  /\ UNCHANGED <<dbVars, running, lastResult, syncId, clock, payload, cleanup,
                 readerVars, startView, ptrWrites, reclaimed, runLimit>>
  /\ UNCHANGED <<callVars, outerVars>>

\* catch: finishSyncRun(syncId, {status: "failed"}); finally
FinishFailed ==
  /\ pc = "finishFailed"
  /\ syncRuns' = FinishSyncRun(syncRuns, syncId, "failed")
  /\ returned' = "failed"
  /\ Return
  /\ UNCHANGED <<groups, teachers, lessons, meta, lastError, lastResult, syncId,
                 clock, pending, readerVars>>

\* a catch block whose error leaves run() past its finally block
FinishFailedThrowsHolding ==
  /\ pc = "finishFailed"
  /\ returned' = "rejected"
  /\ pc' = "idle"
  /\ payload' = EmptyPayload
  /\ cleanup' = NoCleanup
  /\ startView' = View(NoRun)
  /\ failedAt' = "none"
  /\ ptrWrites' = 0
  /\ reclaimed' = {}
  /\ inFlight' = inFlight - 1
  /\ UNCHANGED <<running, runLimit, outerVars>>
  /\ UNCHANGED <<dbVars, lastError, lastResult, syncId, clock, pending, readerVars>>

\* catch: finishSyncRun(syncId, {status: "failed"}) throws; finally; the
\* promise of run() is rejected
FinishFailedThrows ==
  /\ pc = "finishFailed"
  /\ returned' = "rejected"
  /\ Return
  /\ UNCHANGED <<dbVars, lastError, lastResult, syncId, clock, pending, readerVars>>

\* ---------------------------------------------- the fetch phase, in detail
\* what the run keeps when it throws from its fetch phase
FetchThrowFrame ==
  UNCHANGED <<dbVars, running, lastResult, syncId, clock, payload, cleanup,
              readerVars, startView, ptrWrites, reclaimed, runLimit, callVars>>

\* the fetchHtml call every worker of a pool of pages starts with
WorkerCalls(pool) ==
  [s \in Slots |->
     IF s \in DOMAIN pool.workers /\ pool.workers[s].st = "awaiting"
     THEN fetchHtml(pool.items[pool.workers[s].index].href)
     ELSE NoCall]

\* chunks.forEach((chunk) => lessons.push(...chunk.lessons))
RECURSIVE ChunkLessons(_, _)
ChunkLessons(chunks, i) ==
  IF i > Len(chunks) THEN <<>>
  ELSE chunks[i].lessons \o ChunkLessons(chunks, i + 1)

\* the code and the name of the entries of a roster or of normalizedGroups
CodeAndName(entries) ==
  { [code |-> entries[i].code, name |-> entries[i].name] : i \in DOMAIN entries }

\* await this.http.get(url) resolves
HttpGetResolves(s) ==
  /\ http[s].at = "get"
  /\ \E body \in Bodies(http[s].path) :
       http' = [http EXCEPT ![s] = AfterGetResolved(http[s], body)]
  /\ UNCHANGED <<syncVars, stage, scraped, exhausted, poolVars>>
  /\ UNCHANGED <<orphans, remVars, callStateVars>>

\* await this.http.get(url) rejects
HttpGetRejects(s) ==
  /\ http[s].at = "get"
  /\ http' = [http EXCEPT ![s] = AfterGetRejected(http[s])]
  /\ UNCHANGED <<syncVars, stage, scraped, exhausted, poolVars>>
  /\ UNCHANGED <<orphans, remVars, callStateVars>>

\* the timer of setTimeout(resolve, 300 * attempt) fires
TimerFires(s) ==
  /\ http[s].at = "sleep"
  /\ http' = [http EXCEPT ![s] = AfterTimer(http[s])]
  /\ UNCHANGED <<syncVars, stage, scraped, exhausted, poolVars>>
  /\ UNCHANGED <<orphans, remVars, callStateVars>>

\* run(): await this.scraper.fetchGroups(), which awaits fetchHtml("cg.htm")
FetchGroups ==
  /\ pc = "fetch" /\ stage = "none"
  /\ stage' = "fetchGroups"
  /\ http' = [http EXCEPT ![0] = fetchHtml("cg.htm")]
  /\ scraped' = NoScrape
  /\ UNCHANGED <<syncVars, exhausted, poolVars>>
  /\ UNCHANGED <<orphans, remVars, callStateVars>>

\* fetchGroups returns; run(): await this.scraper.fetchAllLessons(groups),
\* which awaits mapLimit(groups, maxConcurrentRequests, fetchGroupLessons)
FetchGroupsReturns ==
  /\ stage = "fetchGroups" /\ http[0].at = "returned"
  /\ LET gs == ParseGroups(http[0].html)
         pool == mapLimit(gs, maxConcurrentRequests)
     IN /\ scraped' = [scraped EXCEPT !.groups = gs]
        /\ SetPool(pool)
        /\ http' = WorkerCalls(pool)
  /\ UNCHANGED exhausted
  /\ stage' = "fetchAllLessons"
  /\ UNCHANGED syncVars
  /\ UNCHANGED <<orphans, remVars, callStateVars>>

\* fetchHtml("cg.htm") throws: fetchGroups throws, run() catches
FetchGroupsThrows ==
  /\ stage = "fetchGroups" /\ http[0].at = "thrown"
  /\ ThrowError(http[0].error)
  /\ exhausted' = exhausted \cup { http[0].path }
  /\ http' = [http EXCEPT ![0] = NoCall]
  /\ stage' = "none"
  /\ FetchThrowFrame
  /\ UNCHANGED <<scraped, poolVars>>
  /\ UNCHANGED <<orphans, remVars, callStateVars>>

\* fetchGroupLessons(group) returns to worker w of fetchAllLessons
GroupPageReturns(w) ==
  /\ stage = "fetchAllLessons"
  /\ w \in DOMAIN workers /\ workers[w].st = "awaiting"
  /\ http[w].at = "returned"
  /\ LET chunk == ParseGroupLessons(http[w].html, items[workers[w].index])
         pool == PromiseAll(WorkerResolved(Pool, w, chunk))
     IN /\ SetPool(pool)
        /\ http' = [http EXCEPT ![w] = WorkerCalls(pool)[w]]
  /\ UNCHANGED exhausted
  /\ UNCHANGED <<syncVars, stage, scraped>>
  /\ UNCHANGED <<orphans, remVars, callStateVars>>

\* an iterator that catches as the iterator of fetchAllTeacherLessons does
GroupPageThrowsCaught(w) ==
  /\ stage = "fetchAllLessons"
  /\ w \in DOMAIN workers /\ workers[w].st = "awaiting"
  /\ http[w].at = "thrown"
  /\ LET chunk == [group |-> items[workers[w].index], lessons |-> <<>>]
         pool == PromiseAll(WorkerResolved(Pool, w, chunk))
     IN /\ SetPool(pool)
        /\ http' = [http EXCEPT ![w] = WorkerCalls(pool)[w]]
  /\ exhausted' = exhausted \cup { http[w].path }
  /\ UNCHANGED <<syncVars, stage, scraped>>
  /\ UNCHANGED <<orphans, remVars, callStateVars>>

\* a rejected pool is left to itself while a worker of it awaits a fetch:
\* nothing cancels the other workers when Promise.all rejects
Orphaned(pool) ==
  IF \E v \in DOMAIN pool.workers : pool.workers[v].st = "awaiting"
  THEN << pool >>
  ELSE <<>>

\* fetchGroupLessons(group) throws in worker w: Promise.all rejects,
\* fetchAllLessons throws, run() catches; the other workers of the pool go
\* on with their fetches (the continuations of fetches that have settled
\* before run first)
GroupPageThrows(w) ==
  /\ stage = "fetchAllLessons"
  /\ w \in DOMAIN workers /\ workers[w].st = "awaiting"
  /\ http[w].at = "thrown"
  /\ \A v \in DOMAIN workers \ { w } :
       workers[v].st = "awaiting" => http[v].at \in { "get", "sleep" }
  /\ SetPool(PromiseAll(WorkerRejected(Pool, w)))
  /\ orphans' = orphans \o Orphaned(PromiseAll(WorkerRejected(Pool, w)))
  /\ ThrowError(http[w].error)
  /\ exhausted' = exhausted \cup { http[w].path }
  /\ http' = [s \in Slots |-> NoCall]
  /\ stage' = "none"
  /\ FetchThrowFrame
  /\ UNCHANGED scraped
  /\ UNCHANGED <<remVars, callStateVars>>

\* fetchAllLessons returns {groups: normalizedGroups, lessons}; run(): await
\* this.scraper.fetchTeachers(), which awaits fetchHtml("cp.htm")
FetchAllLessonsReturns ==
  /\ stage = "fetchAllLessons" /\ settled = "resolved"
  /\ scraped' = [scraped EXCEPT
                   !.normalizedGroups =
                      CodeAndName([i \in DOMAIN result |-> result[i].group]),
                   !.groupLessons = ChunkLessons(result, 1)]
  /\ SetPool(NoPool)
  /\ http' = [http EXCEPT ![0] = fetchHtml("cp.htm")]
  /\ stage' = "fetchTeachers"
  /\ UNCHANGED <<syncVars, exhausted>>
  /\ UNCHANGED <<orphans, remVars, callStateVars>>

\* fetchTeachers returns; run(): teachersDirectory = teachersPayload.teachers,
\* await this.scraper.fetchAllTeacherLessons(teachersDirectory)
FetchTeachersReturns ==
  /\ stage = "fetchTeachers" /\ http[0].at = "returned"
  /\ LET ts == ParseTeachers(http[0].html)
         pool == mapLimit(ts, maxConcurrentRequests)
     IN /\ scraped' = [scraped EXCEPT !.teachersDirectory = ts]
        /\ SetPool(pool)
        /\ http' = WorkerCalls(pool)
  /\ UNCHANGED exhausted
  /\ stage' = "fetchAllTeacherLessons"
  /\ UNCHANGED syncVars
  /\ UNCHANGED <<orphans, remVars, callStateVars>>

\* fetchTeacherLessons(teacher) returns to worker w of fetchAllTeacherLessons
TeacherPageReturns(w) ==
  /\ stage = "fetchAllTeacherLessons"
  /\ w \in DOMAIN workers /\ workers[w].st = "awaiting"
  /\ http[w].at = "returned"
  /\ LET chunk == ParseTeacherLessons(http[w].html, items[workers[w].index])
         pool == PromiseAll(WorkerResolved(Pool, w, chunk))
     IN /\ SetPool(pool)
        /\ http' = [http EXCEPT ![w] = WorkerCalls(pool)[w]]
  /\ UNCHANGED exhausted
  /\ UNCHANGED <<syncVars, stage, scraped>>
  /\ UNCHANGED <<orphans, remVars, callStateVars>>

\* an iterator that lets the error through as the iterator of fetchAllLessons
\* does
TeacherPageThrowsRaised(w) ==
  /\ stage = "fetchAllTeacherLessons"
  /\ w \in DOMAIN workers /\ workers[w].st = "awaiting"
  /\ http[w].at = "thrown"
  /\ SetPool(PromiseAll(WorkerRejected(Pool, w)))
  /\ ThrowError(http[w].error)
  /\ exhausted' = exhausted \cup { http[w].path }
  /\ http' = [http EXCEPT ![w] = NoCall]
  /\ stage' = "none"
  /\ FetchThrowFrame
  /\ UNCHANGED scraped
  /\ UNCHANGED <<orphans, remVars, callStateVars>>

\* fetchTeacherLessons(teacher) throws in worker w: the iterator catches and
\* returns {teacher, lessons: []}
TeacherPageThrows(w) ==
  /\ stage = "fetchAllTeacherLessons"
  /\ w \in DOMAIN workers /\ workers[w].st = "awaiting"
  /\ http[w].at = "thrown"
  /\ LET chunk == [teacher |-> items[workers[w].index], lessons |-> <<>>]
         pool == PromiseAll(WorkerResolved(Pool, w, chunk))
     IN /\ SetPool(pool)
        /\ http' = [http EXCEPT ![w] = WorkerCalls(pool)[w]]
  /\ exhausted' = exhausted \cup { http[w].path }
  /\ UNCHANGED <<syncVars, stage, scraped>>
  /\ UNCHANGED <<orphans, remVars, callStateVars>>

\* run(): lessons = [...groupLessons, ...teacherLessons]; teachers =
\* buildTeachersSnapshot(lessons, teachersDirectory); await saveSnapshot(...)
SaveSnapshotCall(directory, teacherLessons) ==
  LET ll == scraped.groupLessons \o teacherLessons
      pl == [groups |-> scraped.normalizedGroups,
             teachers |-> buildTeachersSnapshot(ll, CodeAndName(directory)),
             lessons |-> ll]
  IN /\ payload' = pl
     /\ pc' = PhaseFrom(1, pl)
     /\ pending' = BulkOps(PhaseFrom(1, pl), pl)
     /\ stage' = "none"
     /\ scraped' = NoScrape
     /\ UNCHANGED <<dbVars, running, lastError, lastResult, syncId, clock, cleanup,
                    readerVars, histVars, callVars>>

\* fetchAllTeacherLessons returns: teacherLessons = teacherLessonsPayload.lessons
FetchAllTeacherLessonsReturns ==
  /\ stage = "fetchAllTeacherLessons" /\ settled = "resolved"
  /\ SaveSnapshotCall(scraped.teachersDirectory, ChunkLessons(result, 1))
  /\ SetPool(NoPool)
  /\ UNCHANGED <<http, exhausted>>
  /\ UNCHANGED <<orphans, remVars, callStateVars>>

\* fetchHtml("cp.htm") throws: fetchTeachers throws, the inner catch of run()
\* logs a warning and leaves teachersDirectory = [] and teacherLessons = []
FetchTeachersThrows ==
  /\ stage = "fetchTeachers" /\ http[0].at = "thrown"
  /\ SaveSnapshotCall(<<>>, <<>>)
  /\ exhausted' = exhausted \cup { http[0].path }
  /\ http' = [http EXCEPT ![0] = NoCall]
  /\ UNCHANGED poolVars
  /\ UNCHANGED <<orphans, remVars, callStateVars>>

\* ------------------------------------------------------------------ reader
\* getActiveGroups/Teachers/Lessons: meta = await getActiveSyncMeta();
\* if (!meta?.activeSyncId) return []
ReadMeta ==
  /\ rpc \in { "idle", "done" }
  /\ \E kind \in ReadKinds : rkind' = kind
  /\ rmeta' = meta
  /\ rresult' = {}
  /\ rsawOther' = FALSE
  /\ rpc' = IF meta = NoRun THEN "done" ELSE "meta"
  /\ UNCHANGED <<dbVars, svcVars, histVars>>
  /\ UNCHANGED <<callVars, outerVars>>

\* the find() of getActiveGroups/Teachers/Lessons with the pointer read before
Query ==
  /\ rpc = "meta"
  /\ rresult' = CASE rkind = "groups" -> ReadGroups(groups, rmeta)
                  [] rkind = "teachers" -> ReadTeachers(teachers, rmeta)
                  [] OTHER -> ReadLessons(lessons, rmeta, NoDate)
  /\ rsawOther' = CASE rkind = "groups" ->
                         \E row \in groups : row.lastSeenSyncId # rmeta
                    [] rkind = "teachers" ->
                         \E row \in teachers : row.lastSeenSyncId # rmeta
                    [] OTHER -> \E row \in lessons : row.syncId # rmeta
  /\ rpc' = "done"
  /\ UNCHANGED <<dbVars, svcVars, histVars, rkind, rmeta>>
  /\ UNCHANGED <<callVars, outerVars>>

Next ==
  \/ RunSkipped
  \/ RunStart
  \/ StartSyncRun
  \/ Fetch
  \/ WriteGroup
  \/ WriteTeacher
  \/ WriteLesson
  \/ Promote
  \/ GcLessonsStep
  \/ GcGroupsStep
  \/ GcTeachersStep
  \/ \E T \in Todays : CleanupOldLessons(T)
  \/ StepThrows
  \/ FinishSuccess
  \/ FinishSuccessThrows
  \/ FinishFailed
  \/ FinishFailedThrows
  \/ ReadMeta
  \/ Query

Spec == Init /\ [][Next]_vars

\* the sync service alone, over more runs
InitRuns ==
  /\ InitCalls
  /\ groups = {} /\ teachers = {} /\ lessons = {}
  /\ meta = NoRun
  /\ syncRuns = <<>>
  /\ running = FALSE /\ lastError = "null" /\ lastResult = "null"
  /\ pc = "idle" /\ syncId = NoRun /\ clock = 0
  /\ payload = EmptyPayload /\ pending = {} /\ cleanup = NoCleanup
  /\ rpc = "idle" /\ rkind = "groups" /\ rmeta = NoRun
  /\ rresult = {} /\ rsawOther = FALSE
  /\ startView = View(NoRun)
  /\ failedAt = "none"
  /\ ptrWrites = 0
  /\ reclaimed = {}
  /\ runLimit = MaxRuns

NextRuns ==
  \/ RunSkipped
  \/ RunStart
  \/ StartSyncRun
  \/ Fetch
  \/ WriteGroup
  \/ WriteTeacher
  \/ WriteLesson
  \/ Promote
  \/ GcLessonsStep
  \/ GcGroupsStep
  \/ GcTeachersStep
  \/ \E T \in Todays : CleanupOldLessons(T)
  \/ StepThrows
  \/ FinishSuccess
  \/ FinishSuccessThrows
  \/ FinishFailed
  \/ FinishFailedThrows

SpecRuns == InitRuns /\ [][NextRuns]_vars

\* a step of the run in progress: the call it awaits returns or throws
RunStep ==
  \/ StartSyncRun
  \/ Fetch
  \/ WriteGroup
  \/ WriteTeacher
  \/ WriteLesson
  \/ Promote
  \/ GcLessonsStep
  \/ GcGroupsStep
  \/ GcTeachersStep
  \/ \E T \in Todays : CleanupOldLessons(T)
  \/ StepThrows
  \/ FinishSuccess
  \/ FinishSuccessThrows
  \/ FinishFailed
  \/ FinishFailedThrows

\* the sync service when every call a run awaits settles in finite time: a
\* run in progress takes its next step, with whichever outcome
SpecRunsFair == InitRuns /\ [][NextRuns]_vars /\ WF_vars(RunStep)

\* ------------------------------------------------------ the retention sweep
\* dates of the lessons of the snapshot the sweep runs on
RetentionDates ==
  { <<2024, 2, 28>>, <<2024, 2, 29>>, <<2025, 12, 30>>, <<2025, 12, 31>>,
    <<2026, 2, 10>>, <<2026, 2, 13>>, <<2026, 2, 14>>, <<2026, 2, 15>>,
    <<2026, 2, 20>>, <<2026, 2, 28>>, <<2026, 3, 1>> }

\* dates getIsoDateInTimezone returns to the sweep
RetentionTodays ==
  { <<2024, 3, 1>>, <<2026, 1, 1>>, <<2026, 2, 15>>, <<2026, 3, 1>>,
    <<2026, 3, 2>> }

\* the lessons of a group page, one per date, in the order of the page
RECURSIVE LessonsOn(_)
LessonsOn(dates) ==
  IF dates = {} THEN <<>>
  ELSE LET first == CHOOSE d \in dates : \A e \in dates : ~IsoLt(e, d)
       IN <<[LessonCg EXCEPT !.date = first]>> \o LessonsOn(dates \ {first})

\* the state in which saveSnapshot of the first run returns, for a scrape of
\* one group whose page holds one lesson on each of some dates
InitRetention ==
  \E dates \in SUBSET RetentionDates :
    LET ll == LessonsOn(dates)
        pl == [groups |-> { [code |-> "101", name |-> "IS-11"] },
               teachers |-> buildTeachersSnapshot(ll, {}),
               lessons |-> ll]
    IN /\ groups = { [code |-> g.code, name |-> g.name, lastSeenSyncId |-> 1] :
                       g \in pl.groups }
       /\ teachers = { [key |-> t.key, code |-> t.code, name |-> t.name,
                        lastSeenSyncId |-> 1] : t \in pl.teachers }
       /\ lessons = { LessonRow(1, ll[i]) : i \in DOMAIN ll }
       /\ meta = 1
       /\ syncRuns = (1 :> "running")
       /\ running = TRUE /\ lastError = "null" /\ lastResult = "null"
       /\ pc = "cleanup" /\ syncId = 1 /\ clock = 1
       /\ payload = pl /\ pending = {} /\ cleanup = NoCleanup
       /\ rpc = "idle" /\ rkind = "groups" /\ rmeta = NoRun
       /\ rresult = {} /\ rsawOther = FALSE
       /\ startView = View(NoRun)
       /\ failedAt = "none"
       /\ ptrWrites = 1
       /\ reclaimed = {}
       /\ runLimit = 1
       /\ inFlight = 1
       /\ returned = "none"
       /\ InitFetchIdle
       /\ InitReminderIdle
       /\ InitCallIdle

NextRetention ==
  \/ \E T \in RetentionTodays : CleanupOldLessons(T)
  \/ FinishSuccess

SpecRetention == InitRetention /\ [][NextRetention]_vars

\* --------------------------------- one run with its fetch phase in detail
\* runs started in a behaviour of SpecFetch
MaxRunsFetch == 2

InitFetch ==
  /\ InitCalls
  /\ groups = {} /\ teachers = {} /\ lessons = {}
  /\ meta = NoRun
  /\ syncRuns = <<>>
  /\ running = FALSE /\ lastError = "null" /\ lastResult = "null"
  /\ pc = "idle" /\ syncId = NoRun /\ clock = 0
  /\ payload = EmptyPayload /\ pending = {} /\ cleanup = NoCleanup
  /\ rpc = "idle" /\ rkind = "groups" /\ rmeta = NoRun
  /\ rresult = {} /\ rsawOther = FALSE
  /\ startView = View(NoRun)
  /\ failedAt = "none"
  /\ ptrWrites = 0
  /\ reclaimed = {}
  /\ runLimit = MaxRunsFetch

NextFetch ==
  \/ RunSkipped
  \/ RunStart
  \/ StartSyncRun
  \/ FetchGroups
  \/ \E s \in Slots : HttpGetResolves(s)
  \/ \E s \in Slots : HttpGetRejects(s)
  \/ \E s \in Slots : TimerFires(s)
  \/ FetchGroupsReturns
  \/ FetchGroupsThrows
  \/ \E w \in Slots : GroupPageReturns(w)
  \/ \E w \in Slots : GroupPageThrows(w)
  \/ FetchAllLessonsReturns
  \/ FetchTeachersReturns
  \/ FetchTeachersThrows
  \/ \E w \in Slots : TeacherPageReturns(w)
  \/ \E w \in Slots : TeacherPageThrows(w)
  \/ FetchAllTeacherLessonsReturns
  \/ WriteGroup
  \/ WriteTeacher
  \/ WriteLesson
  \/ Promote
  \/ GcLessonsStep
  \/ GcGroupsStep
  \/ GcTeachersStep
  \/ \E T \in Todays : CleanupOldLessons(T)
  \/ (pc # "fetch" /\ StepThrows)
  \/ FinishSuccess
  \/ FinishSuccessThrows
  \/ FinishFailed
  \/ FinishFailedThrows

SpecFetch == InitFetch /\ [][NextFetch]_vars

\* ------------------------------- the page fetches of successive sync runs
\* runs started in a behaviour of SpecTraffic
MaxRunsTraffic == 2

\* the links the group roster of the site holds in SpecTraffic
MaxPages == 4

\* fetchGroups on a roster of n links cg101.htm, cg102.htm, ...
SiteGroups(n) ==
  [i \in 1..n |->
     [code |-> <<"101", "102", "103", "104", "105", "106">>[i],
      name |-> <<"IS-11", "IS-12", "IS-13", "IS-14", "IS-15", "IS-16">>[i],
      href |-> <<"cg101.htm", "cg102.htm", "cg103.htm", "cg104.htm",
                 "cg105.htm", "cg106.htm">>[i]]]

\* fetchHtml as a whole when its first GET resolves with the document the
\* site serves at the path
FetchHtmlReturns(s) ==
  /\ http[s].at = "get" /\ http[s].attempt = 1
  /\ http' = [http EXCEPT ![s] = AfterGetResolved(http[s], http[s].path)]
  /\ UNCHANGED <<syncVars, stage, scraped, exhausted, poolVars>>
  /\ UNCHANGED <<orphans, remVars, callStateVars>>

\* fetchHtml as a whole when every GET of it rejects: three GETs with the
\* two waits between them, then the throw
FetchHtmlThrows(s) ==
  /\ http[s].at = "get" /\ http[s].attempt = 1
  /\ http' = [http EXCEPT ![s] =
       AfterGetRejected(AfterTimer(AfterGetRejected(AfterTimer(
         AfterGetRejected(http[s])))))]
  /\ UNCHANGED <<syncVars, stage, scraped, exhausted, poolVars>>
  /\ UNCHANGED <<orphans, remVars, callStateVars>>

\* fetchGroups returns the links of the roster; run(): await
\* this.scraper.fetchAllLessons(groups)
FetchGroupsReturnsLinks ==
  /\ stage = "fetchGroups" /\ http[0].at = "returned"
  /\ LET gs == IF http[0].html = "cg.htm" THEN SiteGroups(MaxPages) ELSE <<>>
         pool == mapLimit(gs, maxConcurrentRequests)
     IN /\ scraped' = [scraped EXCEPT !.groups = gs]
        /\ SetPool(pool)
        /\ http' = WorkerCalls(pool)
  /\ UNCHANGED exhausted
  /\ stage' = "fetchAllLessons"
  /\ UNCHANGED syncVars
  /\ UNCHANGED <<orphans, remVars, callStateVars>>

\* orphans without the pools none of whose workers awaits a fetch
StillFetching(pools) ==
  SelectSeq(pools, LAMBDA pool : Orphaned(pool) # <<>>)

\* the fetch of worker w of the rejected pool k returns: the worker stores
\* the chunk and takes the next index, if there is one
OrphanPageReturns(k, w) ==
  /\ k \in DOMAIN orphans
  /\ w \in DOMAIN orphans[k].workers /\ orphans[k].workers[w].st = "awaiting"
  /\ LET group == orphans[k].items[orphans[k].workers[w].index]
     IN orphans' = StillFetching(
          [orphans EXCEPT ![k] =
             WorkerResolved(orphans[k], w, ParseGroupLessons(group.href, group))])
  /\ UNCHANGED <<syncVars, stage, http, scraped, exhausted, poolVars>>
  /\ UNCHANGED <<remVars, callStateVars>>

\* the fetch of worker w of the rejected pool k throws: the worker rejects
OrphanPageThrows(k, w) ==
  /\ k \in DOMAIN orphans
  /\ w \in DOMAIN orphans[k].workers /\ orphans[k].workers[w].st = "awaiting"
  /\ orphans' = StillFetching([orphans EXCEPT ![k] = WorkerRejected(orphans[k], w)])
  /\ UNCHANGED <<syncVars, stage, http, scraped, exhausted, poolVars>>
  /\ UNCHANGED <<remVars, callStateVars>>

InitTraffic ==
  /\ InitCalls
  /\ groups = {} /\ teachers = {} /\ lessons = {}
  /\ meta = NoRun
  /\ syncRuns = <<>>
  /\ running = FALSE /\ lastError = "null" /\ lastResult = "null"
  /\ pc = "idle" /\ syncId = NoRun /\ clock = 0
  /\ payload = EmptyPayload /\ pending = {} /\ cleanup = NoCleanup
  /\ rpc = "idle" /\ rkind = "groups" /\ rmeta = NoRun
  /\ rresult = {} /\ rsawOther = FALSE
  /\ startView = View(NoRun)
  /\ failedAt = "none"
  /\ ptrWrites = 0
  /\ reclaimed = {}
  /\ runLimit = MaxRunsTraffic

NextTraffic ==
  \/ RunSkipped
  \/ RunStart
  \/ StartSyncRun
  \/ FetchGroups
  \/ \E s \in Slots : FetchHtmlReturns(s)
  \/ \E s \in Slots : FetchHtmlThrows(s)
  \/ FetchGroupsReturnsLinks
  \/ FetchGroupsThrows
  \/ \E w \in Slots : GroupPageReturns(w)
  \/ \E w \in Slots : GroupPageThrows(w)
  \/ \E k \in 1..MaxRunsTraffic, w \in Slots : OrphanPageReturns(k, w)
  \/ \E k \in 1..MaxRunsTraffic, w \in Slots : OrphanPageThrows(k, w)
  \/ FetchAllLessonsReturns
  \/ FetchTeachersReturns
  \/ FetchTeachersThrows
  \/ \E w \in Slots : TeacherPageReturns(w)
  \/ \E w \in Slots : TeacherPageThrows(w)
  \/ FetchAllTeacherLessonsReturns
  \/ WriteGroup
  \/ WriteTeacher
  \/ WriteLesson
  \/ Promote
  \/ GcLessonsStep
  \/ GcGroupsStep
  \/ GcTeachersStep
  \/ \E T \in Todays : CleanupOldLessons(T)
  \/ (pc # "fetch" /\ StepThrows)
  \/ FinishSuccess
  \/ FinishSuccessThrows
  \/ FinishFailed
  \/ FinishFailedThrows

SpecTraffic == InitTraffic /\ [][NextTraffic]_vars

\* ------------------------------------------------------------ mapLimit alone
\* items and limit of the calls of mapLimit in a behaviour of SpecPool
MaxItems == 7
MaxLimit == 3

\* the items of a call: n values, none equal to its index
PoolItems(n) == [i \in 1..n |-> 10 * (n + 1 - i)]

\* the iterator of the call: what it resolves with for an item
IteratorOutcome(item) == [outcome |-> item]

\* mapLimit(items, limit, iterator) has been called and has returned its
\* promise; no sync run is in progress
InitPool ==
  /\ inFlight = 0 /\ returned = "none"
  /\ groups = {} /\ teachers = {} /\ lessons = {}
  /\ meta = NoRun
  /\ syncRuns = <<>>
  /\ running = FALSE /\ lastError = "null" /\ lastResult = "null"
  /\ pc = "idle" /\ syncId = NoRun /\ clock = 0
  /\ payload = EmptyPayload /\ pending = {} /\ cleanup = NoCleanup
  /\ rpc = "idle" /\ rkind = "groups" /\ rmeta = NoRun
  /\ rresult = {} /\ rsawOther = FALSE
  /\ startView = View(NoRun)
  /\ failedAt = "none"
  /\ ptrWrites = 0
  /\ reclaimed = {}
  /\ runLimit = 0
  /\ stage = "none"
  /\ http = [s \in Slots |-> NoCall]
  /\ scraped = NoScrape
  /\ exhausted = {}
  /\ orphans = <<>>
  /\ InitReminderIdle
  /\ InitCallIdle
  /\ \E n \in 0..MaxItems, lim \in 0..MaxLimit :
       LET pool == mapLimit(PoolItems(n), lim)
       IN /\ items = pool.items /\ limit = pool.limit /\ cursor = pool.cursor
          /\ workers = pool.workers /\ result = pool.result
          /\ settled = pool.settled /\ invoked = pool.invoked

\* the promise of iterator(items[index], index) resolves in worker w
IteratorResolves(w) ==
  /\ stage = "none"
  /\ w \in DOMAIN workers /\ workers[w].st = "awaiting"
  /\ SetPool(PromiseAll(WorkerResolved(Pool, w,
                                       IteratorOutcome(items[workers[w].index]))))
  /\ UNCHANGED <<syncVars, fetchVars>>
  /\ UNCHANGED <<remVars, callStateVars>>

\* the promise of iterator(items[index], index) rejects in worker w
IteratorRejects(w) ==
  /\ stage = "none"
  /\ w \in DOMAIN workers /\ workers[w].st = "awaiting"
  /\ SetPool(PromiseAll(WorkerRejected(Pool, w)))
  /\ UNCHANGED <<syncVars, fetchVars>>
  /\ UNCHANGED <<remVars, callStateVars>>

NextPool ==
  \/ \E w \in DOMAIN workers : IteratorResolves(w)
  \/ \E w \in DOMAIN workers : IteratorRejects(w)

SpecPool == InitPool /\ [][NextPool]_vars

\* ------------------------------------------- reminder service: the tick
\* a lesson of the first period of the day (08:00)
LessonEarly == [LessonCg EXCEPT !.lessonNumber = 1, !.subject = "Physics"]

\* the rows a snapshot read by the reminder service may hold
ReminderRows == << LessonCg, LessonCp, LessonNext, LessonEarly >>

\* documents of the user preferences collection, as setReminderSettings,
\* setPreferredGroup and setPreferredTeacher store them
U7 == [userId |-> "7", role |-> "student", reminderEnabled |-> TRUE,
       reminderDaysBefore |-> <<1, 2>>, preferredGroupCode |-> "101",
       preferredTeacherKey |-> "", preferredTeacherName |-> ""]

U8 == [userId |-> "8", role |-> "teacher", reminderEnabled |-> TRUE,
       reminderDaysBefore |-> <<1>>, preferredGroupCode |-> "",
       preferredTeacherKey |-> "ivanov:ab",
       preferredTeacherName |-> "Ivanov A.B."]

U9 == [U7 EXCEPT !.userId = "9", !.reminderEnabled = FALSE]

Users == << U7, U8, U9 >>

\* find {reminderEnabled: true, reminderDaysBefore: non-empty array}
getReminderSubscribers(users) ==
  SelectSeq(users, LAMBDA u : u.reminderEnabled /\ u.reminderDaysBefore # <<>>)

\* ----------------------------------------------------------------- text
\* A text is the sequence of its characters. The pages are Russian; the
\* Latin letters of the model transliterate their Cyrillic ones.
UpperCase == << "A", "B", "C", "D", "E", "F", "G", "H", "I", "J", "K", "L", "M",
                "N", "O", "P", "Q", "R", "S", "T", "U", "V", "W", "X", "Y", "Z" >>

LowerCase == << "a", "b", "c", "d", "e", "f", "g", "h", "i", "j", "k", "l", "m",
                "n", "o", "p", "q", "r", "s", "t", "u", "v", "w", "x", "y", "z" >>

\* the characters \s matches
WhiteSpace == { " ", "\t" }

\* the characters of the texts the model holds as strings
Chars(value) ==
  IF value = "Ivanov A.B."
  THEN << "I", "v", "a", "n", "o", "v", " ", "A", ".", "B", "." >>
  ELSE <<>>

\* the string of a text
RECURSIVE Str(_)
Str(chars) == IF chars = <<>> THEN "" ELSE Head(chars) \o Str(Tail(chars))

\* String.prototype.toLowerCase
toLowerCase(chars) ==
  [k \in DOMAIN chars |->
     IF \E u \in DOMAIN UpperCase : UpperCase[u] = chars[k]
     THEN LowerCase[CHOOSE u \in DOMAIN UpperCase : UpperCase[u] = chars[k]]
     ELSE chars[k]]

\* dots are left in place
ReplaceDotsNot(chars) == chars

\* .replace(/\./g, " ")
ReplaceDots(chars) ==
  [k \in DOMAIN chars |-> IF chars[k] = "." THEN " " ELSE chars[k]]

\* .replace(/\s+/g, " ")
RECURSIVE CollapseSpaces(_)
CollapseSpaces(chars) ==
  IF chars = <<>> THEN <<>>
  ELSE IF Head(chars) \in WhiteSpace
  THEN IF Len(chars) > 1 /\ chars[2] \in WhiteSpace
       THEN CollapseSpaces(Tail(chars))
       ELSE <<" ">> \o CollapseSpaces(Tail(chars))
  ELSE <<Head(chars)>> \o CollapseSpaces(Tail(chars))

\* .trim()
RECURSIVE Trim(_)
Trim(chars) ==
  IF chars = <<>> THEN <<>>
  ELSE IF Head(chars) \in WhiteSpace THEN Trim(Tail(chars))
  ELSE IF chars[Len(chars)] \in WhiteSpace
  THEN Trim(SubSeq(chars, 1, Len(chars) - 1))
  ELSE chars

\* .split(" "): the pieces between single spaces, empty pieces included
RECURSIVE SplitOnSpace(_, _)
SplitOnSpace(chars, piece) ==
  IF chars = <<>> THEN << piece >>
  ELSE IF Head(chars) = " " THEN << piece >> \o SplitOnSpace(Tail(chars), <<>>)
  ELSE SplitOnSpace(Tail(chars), Append(piece, Head(chars)))

\* .join("") of a list of texts
RECURSIVE Concat(_)
Concat(texts) == IF texts = <<>> THEN <<>> ELSE Head(texts) \o Concat(Tail(texts))

\* text.slice(0, n)
Slice0(chars, n) == SubSeq(chars, 1, IF Len(chars) < n THEN Len(chars) ELSE n)

\* teacherMatchKey(value): the identity key of a teacher name
teacherMatchKey(value) ==
  LET normalized == Trim(CollapseSpaces(ReplaceDots(toLowerCase(value))))
      parts == SelectSeq(SplitOnSpace(normalized, <<>>), LAMBDA piece : piece # <<>>)
      surname == parts[1]
      initialsRaw == Concat(Tail(parts))
  IN IF normalized = <<>> THEN <<>>
     ELSE IF parts = <<>> THEN <<>>
     ELSE IF initialsRaw = <<>> THEN surname
     ELSE IF Len(parts) >= 3
     THEN surname \o <<":">> \o Slice0(parts[2], 1) \o Slice0(parts[3], 1)
     ELSE surname \o <<":">> \o Slice0(initialsRaw, 2)

\* the key taken as the surname and the first two letters after it, whatever
\* the number of parts
botTeacherMatchKeyTwoLetters(value) ==
  LET normalized == Trim(CollapseSpaces(ReplaceDots(toLowerCase(value))))
      parts == SelectSeq(SplitOnSpace(normalized, <<>>), LAMBDA piece : piece # <<>>)
  IN IF normalized = <<>> THEN <<>>
     ELSE IF Concat(Tail(parts)) = <<>> THEN parts[1]
     ELSE parts[1] \o <<":">> \o Slice0(Concat(Tail(parts)), 2)

\* teacherMatchKey(value) of the conversational layer: the function the
\* teacher identity resolver of botService.js compares names with
botTeacherMatchKey(value) ==
  LET lowered == toLowerCase(value)
      spaced == ReplaceDots(lowered)
      normalized == Trim(CollapseSpaces(spaced))
      parts == SelectSeq(SplitOnSpace(normalized, <<>>), LAMBDA piece : piece # <<>>)
  IN IF normalized = <<>> THEN <<>>
     ELSE IF Len(parts) = 0 THEN <<>>
     ELSE LET surname == parts[1]
              initialsRaw == Concat(SubSeq(parts, 2, Len(parts)))
          IN IF initialsRaw = <<>> THEN surname
             ELSE IF Len(parts) >= 3
             THEN LET nameInitial == Slice0(parts[2], 1)
                      middleInitial == Slice0(parts[3], 1)
                  IN surname \o <<":">> \o nameInitial \o middleInitial
             ELSE LET twoLetters == Slice0(initialsRaw, 2)
                  IN surname \o <<":">> \o twoLetters

\* ------------------------------------------------ teacher identity key
\* the sync service, the fetches, the pool and the reminder ticks are idle
\* and stay idle
InitNothingRuns ==
  /\ inFlight = 0 /\ returned = "none"
  /\ groups = {} /\ teachers = {} /\ lessons = {}
  /\ meta = NoRun
  /\ syncRuns = <<>>
  /\ running = FALSE /\ lastError = "null" /\ lastResult = "null"
  /\ pc = "idle" /\ syncId = NoRun /\ clock = 0
  /\ payload = EmptyPayload /\ pending = {} /\ cleanup = NoCleanup
  /\ rpc = "idle" /\ rkind = "groups" /\ rmeta = NoRun
  /\ rresult = {} /\ rsawOther = FALSE
  /\ startView = View(NoRun)
  /\ failedAt = "none"
  /\ ptrWrites = 0
  /\ reclaimed = {}
  /\ runLimit = 0
  /\ InitFetchIdle
  /\ InitReminderIdle

\* spellings of one teacher's name: surname, first name and middle name
Surnames == { << "I", "v", "a", "n", "o", "v" >>,
              << "i", "v", "a", "n", "o", "v" >>,
              << "I", "V", "A", "N", "O", "V" >> }

FirstNames == { << "A", "n", "d", "r", "e", "y" >>,
                << "A", "N", "D", "R", "E", "Y" >> }

MiddleNames == { << "B", "o", "r", "i", "s", "o", "v", "i", "c", "h" >>,
                 << "b", "o", "r", "i", "s", "o", "v", "i", "c", "h" >> }

Gaps == { << " " >>, << " ", " " >>, << "\t" >> }

\* the initials form: surname, then the two initials with or without dots
\* and spaces
InitialsForms ==
  { sur \o gap \o first \o afterFirst \o middle \o afterMiddle :
      sur \in Surnames, gap \in Gaps,
      first \in { << "A" >>, << "a" >> },
      afterFirst \in { <<>>, << "." >>, << " " >>, << ".", " " >> },
      middle \in { << "B" >>, << "b" >> },
      afterMiddle \in { <<>>, << "." >>, << " " >> } }

\* the full-name form
FullNameForms ==
  { sur \o gap \o first \o gap2 \o middle \o trail :
      sur \in Surnames, gap \in Gaps, first \in FirstNames,
      gap2 \in { << " " >>, << " ", " " >> }, middle \in MiddleNames,
      trail \in { <<>>, << " " >> } }

\* other texts: the empty one, blank ones, a surname alone, a two-letter word
\* after the surname
OtherForms ==
  { <<>>, << " " >>, << "." >>, << "I", "v", "a", "n", "o", "v" >>,
    << "I", "v", "a", "n", "o", "v", " ", "A", "n" >>,
    << "I", "v", "a", "n", "o", "v", " ", "A" >> }

NameForms == InitialsForms \cup FullNameForms \cup OtherForms

InitKeys ==
  /\ InitNothingRuns
  /\ arg \in NameForms
  /\ out = <<>>
  /\ done = FALSE

\* one call of teacherMatchKey
TeacherMatchKeyCall ==
  /\ ~done
  /\ arg \in NameForms
  /\ out' = teacherMatchKey(arg)
  /\ done' = TRUE
  /\ UNCHANGED arg
  /\ UNCHANGED <<syncVars, fetchVars, poolVars, remVars>>

NextKeys == TeacherMatchKeyCall

SpecKeys == InitKeys /\ [][NextKeys]_vars

\* ------------------------------------------- teacher identity resolver
\* teacher documents read at once by getActiveTeachers
MaxTeachers == 3

\* the characters of names in the order of their code units: the order of
\* MongoDB's sort on a string field
CodeUnitOrder == << "\t", " ", ".", ":" >> \o UpperCase \o LowerCase

CodeUnit(c) == CHOOSE k \in DOMAIN CodeUnitOrder : CodeUnitOrder[k] = c

\* a < b as strings
RECURSIVE TextLess(_, _)
TextLess(a, b) ==
  IF b = <<>> THEN FALSE
  ELSE IF a = <<>> THEN TRUE
  ELSE IF Head(a) = Head(b) THEN TextLess(Tail(a), Tail(b))
  ELSE CodeUnit(Head(a)) < CodeUnit(Head(b))

\* teacher documents of one snapshot: the roster's (with a code) and those
\* buildTeachersSnapshot adds for names seen in lessons (code null)
TeacherDocs ==
  { [name |-> << "I", "v", "a", "n", "o", "v", " ", "A", ".", "B", "." >>,
     code |-> "null"],
    [name |-> << "I", "v", "a", "n", "o", "v", " ", "A", ".", "B", "." >>,
     code |-> "7"],
    [name |-> << "I", "v", "a", "n", "o", "v", " ", "A", "n", "d", "r", "e", "y",
                 " ", "B", "o", "r", "i", "s", "o", "v", "i", "c", "h" >>,
     code |-> "42"],
    [name |-> << "I", "v", "a", "n", "o", "v", " ", "A", "n", "d", "r", "e", "y",
                 " ", "B", "." >>,
     code |-> "null"],
    [name |-> << "I", "v", "a", "n", "o", "v", " ", "A", "N" >>, code |-> "8"],
    [name |-> << "I", "v", "a", "n", "o", "v", " ", "A", ".", " ", "N", ".",
                 " ", "X" >>,
     code |-> "null"],
    [name |-> << " " >>, code |-> "9"] }

\* find({lastSeenSyncId}).sort({name: 1}).toArray(): the orders in which the
\* documents of a set can come back
SortedByName(docs) ==
  { list \in [1..Cardinality(docs) -> docs] :
      /\ \A i, j \in DOMAIN list : i # j => list[i] # list[j]
      /\ \A i, j \in DOMAIN list : i < j => ~TextLess(list[j].name, list[i].name) }

\* teacher.code ? 5 : 0 added to name.length
Score(teacher) == Len(teacher.name) + (IF teacher.code # "null" THEN 5 ELSE 0)

\* the entry for the key, or none
ByKeyGet(byKey, key) == { e \in byKey : e.key = key }

\* byKey.set(key, {key, code, name})
ByKeySet(byKey, key, teacher) ==
  (byKey \ ByKeyGet(byKey, key))
    \cup { [key |-> key, code |-> teacher.code, name |-> teacher.name] }

\* if (nextScore > prevScore)
Replaces(prev, teacher) == Score(teacher) > Score(prev)

\* the callback of teachers.forEach in getActiveTeachers
ForEachTeacher(byKey, teacher) ==
  LET key == teacherMatchKey(teacher.name)
      prev == ByKeyGet(byKey, key)
  IN IF key = <<>> THEN byKey
     ELSE IF prev = {} THEN ByKeySet(byKey, key, teacher)
     ELSE IF \E e \in prev : Replaces(e, teacher) THEN ByKeySet(byKey, key, teacher)
     ELSE byKey

InitResolver ==
  /\ InitNothingRuns
  /\ \E docs \in SUBSET TeacherDocs :
       /\ Cardinality(docs) <= MaxTeachers
       /\ arg \in SortedByName(docs)
  /\ out = [index |-> 1, byKey |-> {}]
  /\ done = FALSE

\* getActiveTeachers takes the next teacher of the list
GetActiveTeachersStep ==
  /\ ~done
  /\ out.index \in DOMAIN arg
  /\ out' = [index |-> out.index + 1,
             byKey |-> ForEachTeacher(out.byKey, arg[out.index])]
  /\ UNCHANGED <<arg, done>>
  /\ UNCHANGED <<syncVars, fetchVars, poolVars, remVars>>

\* getActiveTeachers returns the values of byKey
GetActiveTeachersReturns ==
  /\ ~done
  /\ out.index = Len(arg) + 1
  /\ done' = TRUE
  /\ UNCHANGED <<arg, out>>
  /\ UNCHANGED <<syncVars, fetchVars, poolVars, remVars>>

NextResolver == GetActiveTeachersStep \/ GetActiveTeachersReturns

SpecResolver == InitResolver /\ [][NextResolver]_vars

\* ------------------------------------------------- schedule page parser
\* rows of one schedule page
MaxRows == 3

Digits == << "0", "1", "2", "3", "4", "5", "6", "7", "8", "9" >>

IsDigit(c) == \E k \in DOMAIN Digits : Digits[k] = c

DigitValue(c) == (CHOOSE k \in DOMAIN Digits : Digits[k] = c) - 1

\* the number a run of digits writes
RECURSIVE Num(_)
Num(chars) ==
  IF chars = <<>> THEN 0
  ELSE 10 * Num(SubSeq(chars, 1, Len(chars) - 1)) + DigitValue(chars[Len(chars)])

\* the digits of a number: `${columnIndex}`
RECURSIVE NumChars(_)
NumChars(n) ==
  IF n < 10 THEN << Digits[n + 1] >>
  ELSE NumChars(n \div 10) \o << Digits[(n % 10) + 1] >>

\* cleanText: whitespace runs to one space, trim
cleanText(chars) == Trim(CollapseSpaces(chars))

\* parseRuDate: ^(\d{2})\.(\d{2})\.(\d{4})$ gives yyyy-mm-dd, else null
parseRuDate(value) ==
  LET c == cleanText(value)
  IN IF /\ Len(c) = 10
        /\ c[3] = "." /\ c[6] = "."
        /\ \A k \in { 1, 2, 4, 5, 7, 8, 9, 10 } : IsDigit(c[k])
     THEN << Num(SubSeq(c, 7, 10)), Num(SubSeq(c, 4, 5)), Num(SubSeq(c, 1, 2)) >>
     ELSE NoDate

\* the longest run of digits a text starts with
RECURSIVE LeadingDigits(_)
LeadingDigits(chars) ==
  IF chars # <<>> /\ IsDigit(Head(chars))
  THEN << Head(chars) >> \o LeadingDigits(Tail(chars))
  ELSE <<>>

\* Number.parseInt(text, 10) and Number.isFinite of the result
parseInt(chars) ==
  LET t == Trim(chars)
      signed == t # <<>> /\ Head(t) \in { "+", "-" }
      digits == LeadingDigits(IF signed THEN Tail(t) ELSE t)
  IN [finite |-> digits # <<>>,
      value |-> IF signed /\ Head(t) = "-" THEN 0 - Num(digits) ELSE Num(digits)]

\* a td: its class, its text outside anchors as the pieces between <br>
\* tags, and the texts of its anchors a.z1 .. a.z4
Cell(nul, lines, z1, z2, z3, z4) ==
  [nul |-> nul, lines |-> lines, z1 |-> z1, z2 |-> z2, z3 |-> z3, z4 |-> z4]

\* the html of a cell with <br> as line break and every other tag as a space
CellHtmlLines(td) ==
  LET anchors == << " " >> \o td.z1 \o << " " >> \o td.z2 \o << " " >> \o td.z3
                   \o << " " >> \o td.z4
  IN IF td.lines = <<>> THEN << anchors >>
     ELSE [k \in DOMAIN td.lines |->
             IF k = Len(td.lines) THEN td.lines[k] \o anchors ELSE td.lines[k]]

\* $(td).text()
CellText(td) == Concat(td.lines) \o td.z1 \o td.z2 \o td.z3 \o td.z4

\* parseDayCellHtml
parseDayCellHtml(td) ==
  LET html == CellHtmlLines(td)
      parts == SelectSeq([k \in DOMAIN html |-> cleanText(html[k])],
                         LAMBDA part : part # <<>>)
  IN IF parts = <<>> THEN [date |-> NoDate, dayLabel |-> <<>>]
     ELSE [date |-> parseRuDate(parts[1]),
           dayLabel |-> IF Len(parts) >= 2 THEN parts[2] ELSE <<>>]

\* extractSubjectFromCell
extractSubjectFromCell(td) ==
  IF cleanText(td.z1) # <<>> THEN cleanText(td.z1)
  ELSE cleanText(Concat(td.lines) \o td.z1)

\* extractTeacherCellPayload
extractTeacherCellPayload(td) ==
  LET groupPrimary == cleanText(td.z1)
      groupSecondary == cleanText(td.z4)
      joined == IF groupPrimary # <<>> /\ groupSecondary # <<>>
                THEN groupPrimary \o << " " >> \o groupSecondary
                ELSE groupPrimary \o groupSecondary
  IN [groupName |-> cleanText(joined),
      room |-> cleanText(td.z2),
      subject |-> IF cleanText(td.z3) # <<>> THEN cleanText(td.z3)
                  ELSE cleanText(Concat(td.lines) \o td.z3)]

\* the group name as the code, without a prefix
makeSyntheticGroupCodeBare(groupName, teacherCode, columnIndex) ==
  IF groupName # <<>> THEN groupName
  ELSE (IF teacherCode # <<>> THEN teacherCode ELSE << "u", "n", "k", "n", "o", "w", "n" >>)
         \o << ":" >> \o NumChars(columnIndex)

\* makeSyntheticGroupCode
makeSyntheticGroupCode(groupName, teacherCode, columnIndex) ==
  IF groupName # <<>> THEN << "t", "p", ":" >> \o groupName
  ELSE << "t", "p", ":" >>
         \o (IF teacherCode # <<>> THEN teacherCode ELSE << "u", "n", "k", "n", "o", "w", "n" >>)
         \o << ":" >> \o NumChars(columnIndex)

\* a slot with class nul is read like any other
SlotIsEmptyNever(td) == FALSE

\* td.hasClass("nul")
SlotIsEmpty(td) == td.nul

\* the carried day is forgotten by a row without a date cell
AfterDayCellNoCarry(st, parsed) ==
  [st EXCEPT !.currentDate = parsed.date, !.currentDayLabel = parsed.dayLabel]

\* if (parsed.date) { currentDate = ...; currentDayLabel = ...; offset = 1 }
AfterDayCell(st, parsed) ==
  IF parsed.date # NoDate
  THEN [st EXCEPT !.currentDate = parsed.date, !.currentDayLabel = parsed.dayLabel]
  ELSE st

\* the lesson a slot of a group page gives, and whether it is pushed
GroupSlot(st, page, lessonNumber, td, idx) ==
  LET subject == extractSubjectFromCell(td)
  IN [push |-> ~SlotIsEmpty(td) /\ subject # <<>> /\ st.currentDate # NoDate,
      lesson |-> [groupCode |-> page.source.code,
                  groupName |-> IF page.title # <<>> THEN page.title
                                ELSE page.source.name,
                  date |-> st.currentDate, dayLabel |-> st.currentDayLabel,
                  lessonNumber |-> lessonNumber, columnIndex |-> idx,
                  subject |-> subject, room |-> cleanText(td.z2),
                  teacher |-> cleanText(td.z3), sourceUrl |-> page.source.href]]

\* the lesson a slot of a teacher page gives, and whether it is pushed
TeacherSlot(st, page, lessonNumber, td, idx) ==
  LET cellPayload == extractTeacherCellPayload(td)
  IN [push |-> /\ ~SlotIsEmpty(td)
               /\ cellPayload.subject # <<>> /\ st.currentDate # NoDate,
      lesson |-> [groupCode |-> makeSyntheticGroupCode(cellPayload.groupName,
                                                       page.source.code, idx),
                  groupName |-> cellPayload.groupName,
                  date |-> st.currentDate, dayLabel |-> st.currentDayLabel,
                  lessonNumber |-> lessonNumber, columnIndex |-> idx,
                  subject |-> cellPayload.subject, room |-> cellPayload.room,
                  teacher |-> IF page.title # <<>> THEN page.title
                              ELSE page.source.name,
                  sourceUrl |-> page.source.href]]

\* the callback of $("table.inf tr").each in fetchGroupLessons and in
\* fetchTeacherLessons: st after the row with index r of the page
EachRow(st, page, r) ==
  LET cells == page.rows[r]
      parsed == parseDayCellHtml(cells[1])
      st1 == AfterDayCell(st, parsed)
      offset == IF parsed.date # NoDate THEN 1 ELSE 0
      number == parseInt(cleanText(CellText(cells[offset + 1])))
      lessonCells == SubSeq(cells, offset + 2, Len(cells))
      slots == [idx \in DOMAIN lessonCells |->
                  IF page.kind = "group"
                  THEN GroupSlot(st1, page, number.value, lessonCells[idx], idx)
                  ELSE TeacherSlot(st1, page, number.value, lessonCells[idx], idx)]
      pushed == SelectSeq(slots, LAMBDA slot : slot.push)
  IN IF cells = <<>> THEN st
     ELSE IF offset + 1 \notin DOMAIN cells THEN st1
     ELSE IF ~number.finite THEN st1
     ELSE [st1 EXCEPT
             !.lessons = st.lessons \o [k \in DOMAIN pushed |-> pushed[k].lesson],
             !.from = st.from \o [k \in DOMAIN pushed |-> r]]

\* cells of the pages
DayCell13 == Cell(FALSE, << << "1", "3", ".", "0", "2", ".", "2", "0", "2", "6" >>, << "F", "r", "-", "1" >> >>, <<>>, <<>>, <<>>, <<>>)

DayCell14 == Cell(FALSE, << << "1", "4", ".", "0", "2", ".", "2", "0", "2", "6" >> >>, <<>>, <<>>, <<>>, <<>>)

DayCellBad == Cell(FALSE, << << "1", "3", ".", "2", ".", "2", "0", "2", "6" >>, << "F", "r", "-", "1" >> >>, <<>>, <<>>, <<>>, <<>>)

NumberCell(digit) == Cell(FALSE, << << digit >> >>, <<>>, <<>>, <<>>, <<>>)

BlankCell == Cell(FALSE, << << " " >> >>, <<>>, <<>>, <<>>, <<>>)

\* group page: a.z1 subject, a.z2 room, a.z3 teacher
SlotMath == Cell(FALSE, <<>>, << "M", "a", "t", "h" >>, << "1", "2" >>, << "I", "v", "a", "n", "o", "v", " ", "A", ".", "B", "." >>, <<>>)

SlotNul == Cell(TRUE, <<>>, <<>>, <<>>, <<>>, <<>>)

SlotNulWithText == Cell(TRUE, <<>>, << "M", "a", "t", "h" >>, << "1", "2" >>, << "I", "v", "a", "n", "o", "v", " ", "A", ".", "B", "." >>, <<>>)

SlotPlainText == Cell(FALSE, << << "M", "e", "e", "t", "i", "n", "g" >> >>, <<>>, <<>>, <<>>, <<>>)

SlotNoSubject == Cell(FALSE, <<>>, <<>>, << "1", "2" >>, << "I", "v", "a", "n", "o", "v", " ", "A", ".", "B", "." >>, <<>>)

\* teacher page: a.z1 group, a.z2 room, a.z3 subject
SlotOfGroup == Cell(FALSE, <<>>, << "I", "S", "-", "1", "1" >>, << "1", "2" >>, << "M", "a", "t", "h" >>, <<>>)

SlotOfGroupNamedAsCode == Cell(FALSE, <<>>, << "1", "0", "1" >>, << "1", "2" >>, << "M", "a", "t", "h" >>, <<>>)

SlotNulOfGroup == Cell(TRUE, <<>>, << "I", "S", "-", "1", "1" >>, << "1", "2" >>, << "M", "a", "t", "h" >>, <<>>)

SlotNoGroupSubject == Cell(FALSE, <<>>, << "I", "S", "-", "1", "1" >>, << "1", "2" >>, <<>>, <<>>)

\* rows of a group page
GroupRows ==
  { << DayCell13, NumberCell("2"), SlotMath, SlotNul >>,
    << NumberCell("3"), SlotNulWithText, SlotPlainText >>,
    << DayCell14 >>,
    << DayCell14, BlankCell, SlotMath >>,
    << NumberCell("4"), SlotNoSubject, SlotMath >>,
    << DayCellBad, NumberCell("2"), SlotMath >>,
    <<>> }

\* rows of a teacher page
TeacherRows ==
  { << DayCell13, NumberCell("2"), SlotOfGroup, SlotNul >>,
    << NumberCell("3"), SlotNulOfGroup, SlotPlainText >>,
    << DayCell14 >>,
    << DayCell14, BlankCell, SlotOfGroup >>,
    << NumberCell("4"), SlotNoGroupSubject, SlotOfGroupNamedAsCode >>,
    << DayCellBad, NumberCell("2"), SlotOfGroup >>,
    <<>> }

\* the roster entries whose pages are parsed
Group101 == [code |-> << "1", "0", "1" >>, name |-> << "I", "S", "-", "1", "1" >>, href |-> << "c", "g", "1", "0", "1", ".", "h", "t", "m" >>]

Teacher7 == [code |-> << "7" >>, name |-> << "I", "v", "a", "n", "o", "v", " ", "A", ".", "B", "." >>, href |-> << "c", "p", "7", ".", "h", "t", "m" >>]

\* a teacher whose code reads like the code of a group
Teacher101 == [code |-> << "1", "0", "1" >>, name |-> << "I", "v", "a", "n", "o", "v", " ", "A", ".", "B", "." >>,
               href |-> << "c", "p", "1", "0", "1", ".", "h", "t", "m" >>]

\* the h1 title of a page: absent, or the name it gives
Titles == { <<>>, << "I", "S", "-", "1", "1", "a" >> }

\* the pages: up to MaxRows rows
Pages ==
  UNION { { [kind |-> "group", source |-> Group101, title |-> t, rows |-> rows] :
              t \in Titles, rows \in [1..n -> GroupRows] }
          \cup
          { [kind |-> "teacher", source |-> s, title |-> <<>>, rows |-> rows] :
              s \in { Teacher7, Teacher101 }, rows \in [1..n -> TeacherRows] } :
          n \in 0..MaxRows }

\* let currentDate = null; let currentDayLabel = null; const lessons = []
ParseStart == [row |-> 1, currentDate |-> NoDate, currentDayLabel |-> <<>>,
               lessons |-> <<>>, from |-> <<>>]

InitParser ==
  /\ InitNothingRuns
  /\ arg \in Pages
  /\ out = ParseStart
  /\ done = FALSE

\* the next tr of the page is scanned
ParseRow ==
  /\ ~done
  /\ out.row \in DOMAIN arg.rows
  /\ out' = [EachRow(out, arg, out.row) EXCEPT !.row = out.row + 1]
  /\ UNCHANGED <<arg, done>>
  /\ UNCHANGED <<syncVars, fetchVars, poolVars, remVars>>

\* all rows are scanned: the lessons are returned
ParseReturns ==
  /\ ~done
  /\ out.row = Len(arg.rows) + 1
  /\ done' = TRUE
  /\ UNCHANGED <<arg, out>>
  /\ UNCHANGED <<syncVars, fetchVars, poolVars, remVars>>

NextParser == ParseRow \/ ParseReturns

SpecParser == InitParser /\ [][NextParser]_vars

\* ------------------------------------------------------- roster links
\* text.startsWith(prefix)
StartsWith(chars, prefix) ==
  Len(chars) >= Len(prefix) /\ SubSeq(chars, 1, Len(prefix)) = prefix

\* text.endsWith(suffix)
EndsWith(chars, suffix) ==
  /\ Len(chars) >= Len(suffix)
  /\ SubSeq(chars, Len(chars) - Len(suffix) + 1, Len(chars)) = suffix

\* the code fetchGroups gives the link: the selector takes hrefs cg....htm,
\* the pattern /^cg(\d+)\.htm$/i takes the digits between; none for any
\* other href
GroupLinkCode(href) ==
  LET inner == SubSeq(href, 3, Len(href) - 4)
  IN IF /\ StartsWith(href, << "c", "g" >>)
        /\ EndsWith(href, << ".", "h", "t", "m" >>)
        /\ Len(href) > 6
        /\ \A k \in DOMAIN inner : IsDigit(inner[k])
     THEN inner
     ELSE <<>>

\* hrefs of anchors a.z0 a roster page may hold
RosterHrefs ==
  { << "c", "g", "1", "0", "1", ".", "h", "t", "m" >>, << "c", "g", "7", ".", "h", "t", "m" >>, << "c", "g", ".", "h", "t", "m" >>, << "c", "g", "t", "p", ":", "7", ":", "1", ".", "h", "t", "m" >>, << "C", "G", "5", ".", "h", "t", "m" >>, << "c", "p", "7", ".", "h", "t", "m" >>, << "c", "g", "1", "2", "a", ".", "h", "t", "m" >> }

\* the codes of the groups fetchGroups returns for them
RealGroupCodes == { GroupLinkCode(href) : href \in RosterHrefs } \ { <<>> }

\* teacherMatchKey of the teacher names the model holds as strings
TeacherNames == { "", "Ivanov A.B." }

TeacherKeys == [name \in TeacherNames |-> Str(teacherMatchKey(Chars(name)))]

\* every lesson number is taken as starting now
activeLessonNumbersAll(hhmm) == DOMAIN lessonStartTimes

\* the lesson numbers whose configured start time is now.hhmm
activeLessonNumbers(hhmm) ==
  { n \in DOMAIN lessonStartTimes : lessonStartTimes[n] = hhmm }

\* Array.from(new Set(reminderDaysBefore)).filter(1 or 2).sort()
daysBeforeList(user) ==
  LET given == { user.reminderDaysBefore[k] : k \in DOMAIN user.reminderDaysBefore }
  IN (IF 1 \in given THEN <<1>> ELSE <<>>) \o (IF 2 \in given THEN <<2>> ELSE <<>>)

RoleOf(user) == IF user.role = "teacher" THEN "teacher" ELSE "student"

\* user.preferredTeacherKey || teacherMatchKey(user.preferredTeacherName)
TeacherKeyOf(user) ==
  IF user.preferredTeacherKey # "" THEN user.preferredTeacherKey
  ELSE TeacherKeys[user.preferredTeacherName]

\* the calls made with today's date in place of shiftIsoDate(today, daysBefore)
RECURSIVE WorkOfSameDay(_, _)
WorkOfSameDay(users, now) ==
  IF users = <<>> THEN <<>>
  ELSE LET user == Head(users)
           days == daysBeforeList(user)
       IN [k \in DOMAIN days |->
             [user |-> user, role |-> RoleOf(user), daysBefore |-> days[k],
              targetDate |-> now.isoDate]]
          \o WorkOfSameDay(Tail(users), now)

\* the calls of processUserReminder one tick makes, in order: the two nested
\* loops of runTick over users and over daysBeforeList
RECURSIVE WorkOf(_, _)
WorkOf(users, now) ==
  IF users = <<>> THEN <<>>
  ELSE LET user == Head(users)
           days == daysBeforeList(user)
       IN [k \in DOMAIN days |->
             [user |-> user, role |-> RoleOf(user), daysBefore |-> days[k],
              targetDate |-> shiftIsoDate(now.isoDate, days[k])]]
          \o WorkOf(Tail(users), now)

\* processUserReminder returns 0 before its first await
ReturnsBeforeAwait(item) ==
  \/ item.user.userId = ""
  \/ item.role = "student" /\ item.user.preferredGroupCode = ""
  \/ item.role # "student" /\ TeacherKeyOf(item.user) = ""

\* the calls that remain once those that return at once are passed over
RECURSIVE SkipWork(_)
SkipWork(work) ==
  IF work = <<>> THEN <<>>
  ELSE IF ReturnsBeforeAwait(Head(work)) THEN SkipWork(Tail(work))
  ELSE work

targetRef(item) ==
  IF item.role = "student" THEN <<"group", item.user.preferredGroupCode>>
  ELSE <<"teacher", TeacherKeyOf(item.user)>>

\* the lessons processUserReminder gets: getActiveLessons by group and date
\* for a student, getActiveLessons by date filtered by teacherMatchKey for a
\* teacher
LessonsFor(item) ==
  IF item.role = "student"
  THEN { row \in ReadLessons(lessons, meta, item.targetDate) :
           row.groupCode = item.user.preferredGroupCode }
  ELSE { row \in ReadLessons(lessons, meta, item.targetDate) :
           TeacherKeys[row.teacher] = TeacherKeyOf(item.user) }

\* the eight fields joined by "|"
ReminderKey(item, lesson) ==
  << item.user.userId, item.role, item.daysBefore, lesson.date,
     lesson.lessonNumber, lesson.subject, lesson.groupCode, lesson.teacher >>

\* the document registerReminderSend inserts (createdAt left out)
LedgerEntry(item, lesson) ==
  [reminderKey |-> ReminderKey(item, lesson), userId |-> item.user.userId,
   role |-> item.role, daysBefore |-> item.daysBefore, date |-> lesson.date,
   lessonNumber |-> lesson.lessonNumber, targetRef |-> targetRef(item)]

\* one call of api.sendText and whether it resolved
SendAttempt(item, lesson, ok) ==
  [reminderKey |-> ReminderKey(item, lesson), userId |-> item.user.userId,
   role |-> item.role, daysBefore |-> item.daysBefore, date |-> lesson.date,
   lessonNumber |-> lesson.lessonNumber, ok |-> ok]

\* an insert that no unique index stops
AcceptedAlways(ldg, reminderKey) == TRUE

\* insertOne succeeds unless uniq_reminder_key has the key (error 11000)
Accepted(ldg, reminderKey) == \A e \in ldg : e.reminderKey # reminderKey

\* the flag is never seen set
TickBusyNever(i) == FALSE

\* if (this.running) return
TickBusy(i) == ticks[i].running

\* finally { this.running = false }: the tick is over and its locals are gone
Finished(t) ==
  [NoTick EXCEPT !.failed = t.failed, !.inFlight = t.inFlight - 1,
                 !.error = t.error]

\* processUserReminder has returned: the next call that awaits, or the end
AfterWorkItem(t) ==
  LET rest == SkipWork(Tail(t.work))
  IN IF rest = <<>> THEN Finished(t)
     ELSE [t EXCEPT !.at = "getActiveLessons", !.work = rest, !.cands = {},
                    !.sending = {}]

\* one candidate is dealt with: the next candidate, or the call returns
AfterCandidate(t) ==
  IF t.cands # {}
  THEN [t EXCEPT !.at = "registerReminderSend", !.sending = {}]
  ELSE AfterWorkItem(t)

\* runTick up to its first await
RunTick(i) ==
  /\ ~TickBusy(i)
  /\ LET now == Minutes[wall]
         active == activeLessonNumbers(now.hhmm)
     IN ticks' = [ticks EXCEPT ![i] =
          IF active = {}
          THEN [NoTick EXCEPT !.now = now, !.inFlight = ticks[i].inFlight]
          ELSE [NoTick EXCEPT !.running = TRUE, !.at = "getReminderSubscribers",
                              !.now = now, !.active = active,
                              !.inFlight = ticks[i].inFlight + 1]]
  /\ UNCHANGED <<ledger, sends, wall>>
  /\ UNCHANGED <<syncVars, fetchVars, poolVars, callStateVars>>

\* runTick called while a tick of the instance is in progress
TickSkipped(i) ==
  /\ TickBusy(i)
  /\ ticks' = [ticks EXCEPT ![i].skipped = TRUE]
  /\ UNCHANGED <<ledger, sends, wall>>
  /\ UNCHANGED <<syncVars, fetchVars, poolVars, callStateVars>>

\* await getReminderSubscribers(); if (!users.length) return
GetReminderSubscribers(i) ==
  /\ ticks[i].at = "getReminderSubscribers"
  /\ LET t == ticks[i]
         work == SkipWork(WorkOf(getReminderSubscribers(Users), t.now))
     IN ticks' = [ticks EXCEPT ![i] =
          IF work = <<>> THEN Finished(t)
          ELSE [t EXCEPT !.at = "getActiveLessons", !.work = work]]
  /\ UNCHANGED <<ledger, sends, wall>>
  /\ UNCHANGED <<syncVars, fetchVars, poolVars, callStateVars>>

\* await getActiveLessons(...) and the two filters that follow it
GetActiveLessons(i) ==
  /\ ticks[i].at = "getActiveLessons"
  /\ LET t == ticks[i]
         candidates == { lesson \in LessonsFor(Head(t.work)) :
                           lesson.lessonNumber \in t.active }
     IN ticks' = [ticks EXCEPT ![i] =
          IF candidates = {} THEN AfterWorkItem(t)
          ELSE [t EXCEPT !.at = "registerReminderSend", !.cands = candidates]]
  /\ UNCHANGED <<ledger, sends, wall>>
  /\ UNCHANGED <<syncVars, fetchVars, poolVars, callStateVars>>

\* await registerReminderSend(...) for any one of the remaining candidates;
\* if (!accepted) continue
RegisterReminderSend(i) ==
  /\ ticks[i].at = "registerReminderSend"
  /\ \E lesson \in ticks[i].cands :
       LET t == ticks[i]
           item == Head(t.work)
           entry == LedgerEntry(item, lesson)
           rest == [t EXCEPT !.cands = t.cands \ { lesson }]
       IN IF Accepted(ledger, entry.reminderKey)
          THEN /\ ledger' = ledger \cup { entry }
               /\ ticks' = [ticks EXCEPT ![i] =
                              [rest EXCEPT !.at = "sendText", !.sending = { lesson }]]
          ELSE /\ ledger' = ledger
               /\ ticks' = [ticks EXCEPT ![i] = AfterCandidate(rest)]
  /\ UNCHANGED <<sends, wall>>
  /\ UNCHANGED <<syncVars, fetchVars, poolVars, callStateVars>>

\* await api.sendText(...) resolves
SendText(i) ==
  /\ ticks[i].at = "sendText"
  /\ \E lesson \in ticks[i].sending :
       sends' = sends (+) SetToBag({ SendAttempt(Head(ticks[i].work), lesson, TRUE) })
  /\ ticks' = [ticks EXCEPT ![i] =
       AfterCandidate([ticks[i] EXCEPT !.sentCount = @ + 1])]
  /\ UNCHANGED <<ledger, wall>>
  /\ UNCHANGED <<syncVars, fetchVars, poolVars, callStateVars>>

\* api.sendText throws, the ledger entry is taken back and the tick fails
SendTextFailsRaised(i) ==
  /\ ticks[i].at = "sendText"
  /\ \E lesson \in ticks[i].sending :
       /\ sends' = sends (+)
            SetToBag({ SendAttempt(Head(ticks[i].work), lesson, FALSE) })
       /\ ledger' = ledger \ { LedgerEntry(Head(ticks[i].work), lesson) }
  /\ ticks' = [ticks EXCEPT ![i] = Finished([ticks[i] EXCEPT !.failed = TRUE])]
  /\ UNCHANGED wall
  /\ UNCHANGED <<syncVars, fetchVars, poolVars, callStateVars>>

\* api.sendText throws and the failed send is counted as sent
SendTextFailsCounted(i) ==
  /\ ticks[i].at = "sendText"
  /\ \E lesson \in ticks[i].sending :
       sends' = sends (+) SetToBag({ SendAttempt(Head(ticks[i].work), lesson, FALSE) })
  /\ ticks' = [ticks EXCEPT ![i] =
       AfterCandidate([ticks[i] EXCEPT !.sentCount = @ + 1])]
  /\ UNCHANGED <<ledger, wall>>
  /\ UNCHANGED <<syncVars, fetchVars, poolVars, callStateVars>>

\* api.sendText throws: caught inside the loop, logged, the
\* loop goes on; sentCount += 1 is passed over
SendTextFails(i) ==
  /\ ticks[i].at = "sendText"
  /\ \E lesson \in ticks[i].sending :
       sends' = sends (+) SetToBag({ SendAttempt(Head(ticks[i].work), lesson, FALSE) })
  /\ ticks' = [ticks EXCEPT ![i] = AfterCandidate(ticks[i])]
  /\ UNCHANGED <<ledger, wall>>
  /\ UNCHANGED <<syncVars, fetchVars, poolVars, callStateVars>>

\* insertOne throws an error other than 11000 once the document is stored,
\* and the message is sent all the same
TickThrowsAfterInsert(i) ==
  /\ ticks[i].at \in { "getReminderSubscribers", "getActiveLessons",
                       "registerReminderSend" }
  /\ IF ticks[i].at = "registerReminderSend"
     THEN \E lesson \in ticks[i].cands :
            /\ ledger' = ledger \cup { LedgerEntry(Head(ticks[i].work), lesson) }
            /\ sends' = sends (+)
                 SetToBag({ SendAttempt(Head(ticks[i].work), lesson, TRUE) })
     ELSE UNCHANGED <<ledger, sends>>
  /\ ticks' = [ticks EXCEPT ![i] =
       Finished([ticks[i] EXCEPT !.failed = TRUE, !.error = ticks[i].at])]
  /\ UNCHANGED wall
  /\ UNCHANGED <<syncVars, fetchVars, poolVars, callStateVars>>

\* a database call of the tick throws (registerReminderSend rethrows what is
\* not error 11000): catch of runTick logs the error, finally clears the
\* flag, runTick returns
TickThrows(i) ==
  /\ ticks[i].at \in { "getReminderSubscribers", "getActiveLessons",
                       "registerReminderSend" }
  /\ ticks' = [ticks EXCEPT ![i] =
       Finished([ticks[i] EXCEPT !.failed = TRUE, !.error = ticks[i].at])]
  /\ UNCHANGED <<ledger, sends, wall>>
  /\ UNCHANGED <<syncVars, fetchVars, poolVars, callStateVars>>

\* the wall clock reaches the next minute
MinutePasses ==
  /\ wall < Len(Minutes)
  /\ wall' = wall + 1
  /\ UNCHANGED <<ticks, ledger, sends>>
  /\ UNCHANGED <<syncVars, fetchVars, poolVars, callStateVars>>

\* a run on 2026-02-11 has promoted a snapshot holding LessonEarly and any of
\* the other ReminderRows; the sync service is idle and stays idle, two
\* instances tick
InitReminder ==
  \E rows \in SUBSET { LessonCg, LessonCp, LessonNext } :
    LET ll == SelectSeq(ReminderRows, LAMBDA l : l \in rows \cup { LessonEarly })
    IN /\ groups = { [code |-> "101", name |-> "IS-11", lastSeenSyncId |-> 1] }
       /\ teachers = { [key |-> t.key, code |-> t.code, name |-> t.name,
                        lastSeenSyncId |-> 1] : t \in buildTeachersSnapshot(ll, {}) }
       /\ lessons = { LessonRow(1, ll[k]) : k \in DOMAIN ll }
       /\ meta = 1
       /\ syncRuns = (1 :> "success")
       /\ running = FALSE /\ lastError = "null"
       /\ lastResult = [syncId |-> 1, keepFromDate |-> <<2026, 2, 10>>,
                        deletedCount |-> 0]
       /\ pc = "idle" /\ syncId = 1 /\ clock = 1
       /\ payload = EmptyPayload /\ pending = {} /\ cleanup = NoCleanup
       /\ rpc = "idle" /\ rkind = "groups" /\ rmeta = NoRun
       /\ rresult = {} /\ rsawOther = FALSE
       /\ startView = View(NoRun)
       /\ failedAt = "none"
       /\ ptrWrites = 0
       /\ reclaimed = {}
       /\ runLimit = 1
       /\ inFlight = 0
       /\ returned = "ok"
       /\ InitFetchIdle
       /\ InitReminderIdle
       /\ InitCallIdle

NextReminder ==
  \/ \E i \in Dispatchers :
       \/ RunTick(i)
       \/ TickSkipped(i)
       \/ GetReminderSubscribers(i)
       \/ GetActiveLessons(i)
       \/ RegisterReminderSend(i)
       \/ SendText(i)
       \/ SendTextFails(i)
       \/ TickThrows(i)
  \/ MinutePasses

SpecReminder == InitReminder /\ [][NextReminder]_vars

\* ----------------------------------------- the two services of one process
\* sync runs started in a behaviour of SpecServices, after the run whose
\* snapshot is active at the start
MaxRunsServices == 2

\* one process holds one SyncService (server.js) and one ReminderService: the
\* instance whose ticks SpecServices follows
Server == 1

\* what the ticks of 10:00 of 2026-02-12 have left in the reminder log for
\* subscriber 7: lead time d, the entry and the send of lesson PastLessons[d]
PastLessons == << LessonRow(1, LessonCg), LessonRow(1, LessonNext) >>

PastItem(d) == WorkOf(<< U7 >>, Minutes[2])[d]

\* the snapshot of run 1 is active, no run and no tick is in progress; the
\* behaviour either begins at the first minute with an empty reminder log
\* and starts no further run, or begins at the last minute, when no lesson
\* starts, with what earlier ticks have logged, and starts runs
InitServices ==
  LET ll == ReminderRows
  IN /\ groups = { [code |-> "101", name |-> "IS-11", lastSeenSyncId |-> 1] }
     /\ teachers = { [key |-> t.key, code |-> t.code, name |-> t.name,
                      lastSeenSyncId |-> 1] : t \in buildTeachersSnapshot(ll, {}) }
     /\ lessons = { LessonRow(1, ll[k]) : k \in DOMAIN ll }
     /\ meta = 1
     /\ syncRuns = (1 :> "success")
     /\ running = FALSE /\ lastError = "null"
     /\ lastResult = [syncId |-> 1, keepFromDate |-> <<2026, 2, 10>>,
                      deletedCount |-> 0]
     /\ pc = "idle" /\ syncId = 1 /\ clock = 1
     /\ payload = EmptyPayload /\ pending = {} /\ cleanup = NoCleanup
     /\ rpc = "idle" /\ rkind = "groups" /\ rmeta = NoRun
     /\ rresult = {} /\ rsawOther = FALSE
     /\ startView = View(NoRun)
     /\ failedAt = "none"
     /\ ptrWrites = 0
     /\ reclaimed = {}
     /\ \/ /\ runLimit = 1 /\ wall = 1
           /\ ledger = {} /\ sends = EmptyBag
        \/ /\ runLimit = 1 + MaxRunsServices /\ wall = Len(Minutes)
           /\ \E past \in SUBSET DOMAIN PastLessons :
                /\ ledger = { LedgerEntry(PastItem(d), PastLessons[d]) : d \in past }
                /\ sends = SetToBag({ SendAttempt(PastItem(d), PastLessons[d], TRUE) :
                                        d \in past })
     /\ inFlight = 0
     /\ returned = "ok"
     /\ InitFetchIdle
     /\ ticks = [i \in Dispatchers |-> NoTick]
     /\ InitCallIdle

NextServices ==
  \/ RunSkipped
  \/ RunStart
  \/ StartSyncRun
  \/ Fetch
  \/ WriteGroup
  \/ WriteTeacher
  \/ WriteLesson
  \/ Promote
  \/ GcLessonsStep
  \/ GcGroupsStep
  \/ GcTeachersStep
  \/ \E T \in Todays : CleanupOldLessons(T)
  \/ StepThrows
  \/ FinishSuccess
  \/ FinishSuccessThrows
  \/ FinishFailed
  \/ FinishFailedThrows
  \/ RunTick(Server)
  \/ TickSkipped(Server)
  \/ GetReminderSubscribers(Server)
  \/ GetActiveLessons(Server)
  \/ RegisterReminderSend(Server)
  \/ SendText(Server)
  \/ SendTextFails(Server)
  \/ TickThrows(Server)
  \/ MinutePasses

SpecServices == InitServices /\ [][NextServices]_vars

TypeOK ==
  /\ meta \in 0..runLimit
  /\ running \in BOOLEAN
  /\ clock \in 0..runLimit

\* ================================================================== claims
PrePromotion ==
  { "startSyncRun", "fetch", "writeGroups", "writeTeachers", "writeLessons",
    "promote" }

GcPhases == { "gcLessons", "gcGroups", "gcTeachers" }

\* saveSnapshot of the current run has returned
SnapshotSaved == pc \in { "cleanup", "finishSuccess" }

\* every group, teacher and lesson of the payload has its row tagged sid
AllWritten(sid, pl) ==
  /\ \A g \in pl.groups :
       \E row \in groups : row.code = g.code /\ row.lastSeenSyncId = sid
  /\ \A t \in pl.teachers :
       \E row \in teachers : row.key = t.key /\ row.lastSeenSyncId = sid
  /\ \A i \in DOMAIN pl.lessons :
       \E row \in lessons : LessonKeyMatch(row, sid, pl.lessons[i])

\* the reader's query step
QueryStep == rpc = "meta" /\ rpc' = "done"

\* C1: the lessons returned by one read never contain a lesson of one run
\* together with a lesson of another run, whatever the interleaving of the
\* read with the writes, the promotion and the garbage collection of a run.
C1_NoMixedRuns ==
  rkind = "lessons" => \A x \in rresult, y \in rresult : x.syncId = y.syncId

\* a lessons read returned rows of the run it read from the pointer while the
\* collection also held rows of the other run, after run 1 had succeeded
C1_Witness ==
  /\ rpc = "done" /\ rkind = "lessons" /\ rresult # {} /\ rsawOther
  /\ clock = 2 /\ running
  /\ 1 \in DOMAIN syncRuns /\ syncRuns[1] = "success"

\* C2: when the status of a run becomes failed, the pointer's activeSyncId
\* equals its value before the run started.
C2_FailedRunKeepsPointer ==
  [][(pc = "finishFailed" /\ syncId \in DOMAIN syncRuns
        /\ syncRuns'[syncId] = "failed")
       => meta' = startView.activeSyncId]_vars

\* every run before the current one is recorded as successful
EarlierRunsSucceeded ==
  \A r \in 1..(syncId - 1) : r \in DOMAIN syncRuns /\ syncRuns[r] = "success"

\* C3: when a run has failed before promotion (here: after nothing but
\* successful runs), getActiveGroups, getActiveTeachers and getActiveLessons
\* return what they returned before the run started.
C3_FailedRunInvisible ==
  (pc = "finishFailed" /\ failedAt \in PrePromotion /\ EarlierRunsSucceeded)
    => View(meta) = startView

\* a result is the complete snapshot served when the run started, or the
\* complete snapshot of the run once it is promoted
FullyFormed(kind, res) ==
  \/ kind = "groups" /\ res = startView.groups
  \/ kind = "teachers" /\ res = startView.teachers
  \/ kind = "lessons" /\ res = startView.lessons
  \/ /\ meta = syncId
     /\ \/ kind = "groups" /\ res = View(syncId).groups
        \/ kind = "teachers" /\ res = View(syncId).teachers
        \/ kind = "lessons" /\ res = View(syncId).lessons

\* C4: while a run is in flight (here: after nothing but successful runs)
\* every read of groups, teachers or lessons returns the complete previous
\* snapshot or the complete new one.
C4_ReadsFullyFormed ==
  [][(running /\ EarlierRunsSucceeded /\ QueryStep)
       => FullyFormed(rkind, rresult')]_vars

\* C5: the pointer is written exactly once per successful run, after every
\* group upsert, teacher upsert and lesson insert of the run; a run that
\* fails before the write phase completes writes it zero times.
C5_PointerWrittenOnce ==
  /\ [](ptrWrites <= 1)
  /\ []((pc = "finishFailed" /\ failedAt \in PrePromotion) => ptrWrites = 0)
  /\ [][(pc = "finishSuccess" /\ syncRuns'[syncId] = "success")
          => ptrWrites = 1]_vars
  /\ [][(meta' # meta \/ ptrWrites' = ptrWrites + 1)
          => /\ AllWritten(syncId, payload)
             /\ meta' = syncId
             /\ ptrWrites' = ptrWrites + 1]_vars

\* a run that wrote rows of all three collections has been recorded as
\* successful and is the active one, and an earlier run has failed
C5_Witness ==
  /\ pc = "idle" /\ syncId = 2 /\ meta = 2
  /\ DOMAIN syncRuns = {1, 2}
  /\ syncRuns[2] = "success" /\ syncRuns[1] = "failed"
  /\ groups # {} /\ teachers # {} /\ lessons # {}

\* C6 as stated: at any instant there is exactly one active runId and the
\* rows a reader has been returned carry it.
C6_ExactlyOneActiveRun ==
  /\ meta # NoRun
  /\ rpc = "done" =>
       /\ rkind = "lessons" => \A row \in rresult : row.syncId = meta
       /\ rkind # "lessons" => \A row \in rresult : row.lastSeenSyncId = meta

\* C6 amended: there is at most one active runId (none before the first
\* promotion); the rows a read returns all carry the activeSyncId that read
\* obtained from the pointer, which is the active run or a run that was
\* active before it, and a read that found no pointer returns nothing.
C6_RowsCarryPointerRead ==
  /\ rmeta \in 0..meta
  /\ rpc = "done" =>
       /\ rkind = "lessons" => \A row \in rresult : row.syncId = rmeta
       /\ rkind # "lessons" => \A row \in rresult : row.lastSeenSyncId = rmeta
       /\ rmeta = NoRun => rresult = {}

\* a groups read returned rows of run 1 after the pointer had moved to run 2
C6_Witness ==
  /\ rpc = "done" /\ rkind = "groups" /\ rresult # {}
  /\ rmeta = 1 /\ meta = 2

\* C7: lesson writes are insert-if-absent by the natural key: no two rows
\* share a natural key, a write never changes or removes an existing row, and
\* when the lessons bulkWrite is through every lesson of the payload has
\* exactly one row.
C7_LessonInsertIfAbsent ==
  /\ [](\A x \in lessons, y \in lessons :
          LessonKeyMatch(x, y.syncId, y) => x = y)
  /\ [](pc = "promote" =>
          \A i \in DOMAIN payload.lessons :
            Cardinality({ row \in lessons :
                            LessonKeyMatch(row, syncId, payload.lessons[i]) }) = 1)
  /\ [][pc = "writeLessons" => lessons \subseteq lessons']_vars

\* the lessons bulkWrite is through for a payload that holds the same natural
\* key twice with different contents (the page of one group fetched twice)
C7_Witness ==
  /\ pc = "promote"
  /\ \E i \in DOMAIN payload.lessons, j \in DOMAIN payload.lessons :
       /\ i # j
       /\ payload.lessons[i] # payload.lessons[j]
       /\ LessonKeyMatch(LessonRow(syncId, payload.lessons[i]), syncId,
                         payload.lessons[j])

\* C8: after saveSnapshot of run R the collections hold no lesson with a
\* syncId other than R and no group or teacher with a lastSeenSyncId other
\* than R; a group absent from R is gone.
C8_OnlyRunRowsAfterSnapshot ==
  SnapshotSaved =>
    /\ \A row \in lessons : row.syncId = syncId
    /\ \A row \in groups :
         /\ row.lastSeenSyncId = syncId
         /\ \E g \in payload.groups : g.code = row.code
    /\ \A row \in teachers : row.lastSeenSyncId = syncId

\* saveSnapshot has returned for a run that scraped no group, after deleting
\* the group and the lessons that a failed, never promoted run had left behind
C8_Witness ==
  /\ pc = "cleanup" /\ payload.groups = {} /\ groups = {}
  /\ startView.activeSyncId = NoRun
  /\ \E r \in DOMAIN syncRuns :
       /\ syncRuns[r] = "failed"
       /\ <<"groups", r>> \in reclaimed
       /\ <<"lessons", r>> \in reclaimed

\* C9: a garbage collection that throws after the promotion of run R leaves
\* the pointer at R, also when the run returns, and the garbage collection
\* of the next run that completes leaves no row of an earlier run.
C9_GcFailureKeepsPromotion ==
  /\ []((pc = "finishFailed" /\ failedAt \in GcPhases) => meta = syncId)
  /\ [][(pc = "finishFailed" /\ failedAt \in GcPhases) => meta' = syncId]_vars
  /\ [](SnapshotSaved =>
          /\ \A row \in lessons : ~(row.syncId < syncId)
          /\ \A row \in groups : ~(row.lastSeenSyncId < syncId)
          /\ \A row \in teachers : ~(row.lastSeenSyncId < syncId))

\* the run active at the start was promoted but is recorded as failed, rows
\* older than it were still stored, and this run's sweep has deleted them
C9_Witness ==
  /\ pc = "cleanup"
  /\ startView.activeSyncId # NoRun
  /\ startView.activeSyncId \in DOMAIN syncRuns
  /\ syncRuns[startView.activeSyncId] = "failed"
  /\ \E r \in 1..MaxRuns :
       r < startView.activeSyncId /\ <<"lessons", r>> \in reclaimed

\* days from 2000-01-01 to the date
DayNum(d) ==
  LET n == d[1] - 2000
      before == <<0, 31, 59, 90, 120, 151, 181, 212, 243, 273, 304, 334>>
  IN 365 * n + ((n + 3) \div 4) - ((n + 99) \div 100) + ((n + 399) \div 400)
       + before[d[2]] + (IF d[2] > 2 /\ IsLeap(d[1]) THEN 1 ELSE 0) + d[3] - 1

C11_SingleFlight ==
  /\ [](inFlight <= 1)
  /\ [](inFlight = (IF running THEN 1 ELSE 0))
  /\ [][(returned' = "skipped" /\ returned # "skipped")
          => /\ running /\ running'
             /\ UNCHANGED <<dbVars, svcVars, inFlight>>]_vars
  /\ [][running => (clock' = clock /\ syncId' = syncId)]_vars

\* a call of run() has returned the skipped result while run 2 was writing
\* its lessons
C11_Witness ==
  /\ returned = "skipped" /\ running /\ inFlight = 1
  /\ clock = 2 /\ pc = "writeLessons"

GetOk(n) == [kind |-> "get", attempt |-> n, ok |-> TRUE, ms |-> 0]
GetFailed(n) == [kind |-> "get", attempt |-> n, ok |-> FALSE, ms |-> 0]
Waited(n, delay) == [kind |-> "wait", attempt |-> n, ok |-> FALSE, ms |-> delay]

\* C13: a fetchHtml call makes at most 3 GETs; it returns at the first GET
\* that succeeds, whatever the body (an empty body included), waits 300 ms
\* after the first failure and 600 ms after the second and not after the
\* third, and throws only after 3 failed GETs, with an error naming the URL.
C13_FetchHtmlRetries ==
  \A s \in Slots :
    LET c == http[s]
    IN /\ Cardinality({ i \in DOMAIN c.log : c.log[i].kind = "get" }) <= 3
       /\ c.at = "returned" =>
            /\ c.log \in { << GetOk(1) >>,
                           << GetFailed(1), Waited(1, 300), GetOk(2) >>,
                           << GetFailed(1), Waited(1, 300), GetFailed(2),
                              Waited(2, 600), GetOk(3) >> }
            /\ c.html \in { "", c.path }
       /\ c.at = "thrown" =>
            /\ c.log = << GetFailed(1), Waited(1, 300), GetFailed(2),
                          Waited(2, 600), GetFailed(3) >>
            /\ c.error = "Failed to fetch " \o BaseUrl \o c.path
       /\ c.at \in { "get", "sleep" } =>
            c.log \in { <<>>,
                        << GetFailed(1), Waited(1, 300) >>,
                        << GetFailed(1), Waited(1, 300), GetFailed(2),
                           Waited(2, 600) >> }
       /\ c.at = "sleep" => c.log # <<>>

\* the fetch of the page of teacher 7 has thrown after its third failed GET,
\* in a run whose fetch of cg.htm returned an empty body
C13_Witness ==
  /\ stage = "fetchAllTeacherLessons"
  /\ http[1].at = "thrown" /\ http[1].path = "cp7.htm"
  /\ Len(http[1].log) = 5
  /\ scraped.groups = <<>>

\* C14 as stated: once a page fetch of a run has exhausted its attempts,
\* whichever page it is, the run is in its catch block or has returned, and
\* it is not recorded as successful.
C14_AnyExhaustedFetchAborts ==
  exhausted # {} =>
    /\ running => pc = "finishFailed"
    /\ (~running /\ syncId \in DOMAIN syncRuns) => syncRuns[syncId] # "success"

\* C14 amended: when the fetch of the group roster or of a group page
\* exhausts its attempts the run is aborted: it goes to its catch block
\* without writing, its result is not ok and its status ends as failed
\* whenever finishSyncRun succeeds (it stays running when finishSyncRun
\* throws); when the fetch of the teacher roster exhausts its attempts the
\* run goes on to saveSnapshot with the lessons of the group pages only, and
\* when the fetch of a teacher page does, with no lessons for that teacher.
C14_GroupFetchAborts ==
  /\ []((exhausted \cap { "cg.htm", "cg101.htm" } # {})
          => /\ running => (pc = "finishFailed" /\ failedAt = "fetch")
             /\ ~running =>
                  /\ returned \in { "failed", "rejected" }
                  /\ syncRuns[syncId] = (IF returned = "failed" THEN "failed"
                                         ELSE "running")
             /\ meta # syncId)
  /\ [][("cp.htm" \in exhausted' \ exhausted)
          => /\ pc' \in { "writeGroups", "writeTeachers", "writeLessons", "promote" }
             /\ payload'.lessons = scraped.groupLessons
             /\ payload'.groups = scraped.normalizedGroups]_vars
  /\ [][("cp7.htm" \in exhausted' \ exhausted)
          => /\ pc' = "fetch" /\ stage' = stage
             /\ settled' = "resolved"
             /\ result'[1].lessons = <<>>]_vars

\* the fetch of the page of group 101 has thrown and the run has returned,
\* recorded as failed
C14_Witness ==
  /\ ~running /\ exhausted = { "cg101.htm" }
  /\ returned = "failed"
  /\ syncId \in DOMAIN syncRuns /\ syncRuns[syncId] = "failed"

\* C15: with no invocation failing, mapLimit invokes the iterator on every
\* item exactly once and resolves with result[i] the outcome for items[i],
\* whatever the order of completion; at no instant are more than
\* max(1, limit) invocations in flight, and no item is ever invoked twice.
C15_MapLimit ==
  /\ \A i \in DOMAIN invoked : invoked[i] <= 1
  /\ Cardinality({ w \in DOMAIN workers : workers[w].st = "awaiting" })
       <= (IF limit > 1 THEN limit ELSE 1)
  /\ \A w \in DOMAIN workers, v \in DOMAIN workers :
       (w # v /\ workers[w].st = "awaiting" /\ workers[v].st = "awaiting")
         => workers[w].index # workers[v].index
  /\ (\A w \in DOMAIN workers : workers[w].st = "returned")
       => /\ settled = "resolved"
          /\ Len(result) = Len(items)
          /\ \A i \in DOMAIN items :
               /\ invoked[i] = 1
               /\ result[i] = [outcome |-> items[i]]
  /\ settled = "resolved"
       => \A w \in DOMAIN workers : workers[w].st = "returned"

\* mapLimit has resolved for 7 items and limit 3
C15_Witness ==
  /\ settled = "resolved" /\ Len(items) = 7 /\ limit = 3
  /\ Len(result) = 7 /\ result[7] = [outcome |-> 10]

\* --------------------------------------------------------------- C16
\* the api.sendText calls made or being made for a reminder key
Attempts(reminderKey) ==
  LET made == { a \in BagToSet(sends) : a.reminderKey = reminderKey }
      count[S \in SUBSET made] ==
        IF S = {} THEN 0
        ELSE LET a == CHOOSE x \in S : TRUE
             IN CopiesIn(a, sends) + count[S \ { a }]
  IN count[made]
     + Cardinality({ i \in Dispatchers :
                       /\ ticks[i].at = "sendText"
                       /\ \E lesson \in ticks[i].sending :
                            ReminderKey(Head(ticks[i].work), lesson) = reminderKey })

\* every reminder key the two instances can build from the snapshot
ReminderKeys ==
  { ReminderKey(item, LessonRow(1, ReminderRows[k])) :
      item \in { [user |-> u, role |-> RoleOf(u), daysBefore |-> d,
                  targetDate |-> NoDate] : u \in { U7, U8, U9 }, d \in { 1, 2 } },
      k \in DOMAIN ReminderRows }

\* C16: for every reminder key at most one api.sendText call is ever made,
\* whatever ticks run, the same minute ticked again and two instances ticking
\* at once against the same ledger included
C16_OneSendPerKey ==
  /\ \A reminderKey \in ReminderKeys : Attempts(reminderKey) <= 1
  /\ \A a \in BagToSet(sends) : a.reminderKey \in ReminderKeys

\* instance 1 has inserted the entry of a lesson and is sending, while
\* instance 2, ticking in the same minute for the same subscriber, was refused
\* the same key and has gone on to its next candidate
C16_Witness ==
  /\ ticks[1].at = "sendText" /\ ticks[2].at = "registerReminderSend"
  /\ ticks[1].now = ticks[2].now
  /\ Head(ticks[1].work) = Head(ticks[2].work)
  /\ \E lesson \in ticks[1].sending :
       /\ lesson \notin ticks[2].cands
       /\ ticks[2].cands # {}
       /\ Attempts(ReminderKey(Head(ticks[1].work), lesson)) = 1
       /\ \A a \in BagToSet(sends) :
            a.reminderKey # ReminderKey(Head(ticks[1].work), lesson)

\* --------------------------------------------------------------- C17
\* C17: for every subscriber, every lesson of the subscriber's group or
\* teacher taken by its date and lesson number, and every lead time, at most
\* one message is sent, whatever rows the active snapshot holds for the
\* lesson (its group-page row and its teacher-page row included)
C17_OneMessagePerLesson ==
  \A a \in BagToSet(sends), b \in BagToSet(sends) :
    ( /\ a.ok /\ b.ok
      /\ a.userId = b.userId /\ a.daysBefore = b.daysBefore
      /\ a.date = b.date /\ a.lessonNumber = b.lessonNumber )
    => (a = b /\ CopiesIn(a, sends) = 1)

\* --------------------------------------------------------------- C18
\* the keys of the ledger entries
LedgerKeys == { e.reminderKey : e \in ledger }

\* instance i is inside api.sendText for this key
Sending(i, reminderKey) ==
  /\ ticks[i].at = "sendText"
  /\ \E lesson \in ticks[i].sending :
       ReminderKey(Head(ticks[i].work), lesson) = reminderKey

\* this step is a call of api.sendText by instance i that throws
SendFailsStep(i) ==
  \E a \in BagToSet(sends') :
    /\ ~a.ok /\ CopiesIn(a, sends') = CopiesIn(a, sends) + 1
    /\ Sending(i, a.reminderKey)

\* C18: api.sendText is called only for a key whose ledger entry has been
\* inserted; when the call fails the entry stays, the tick is not failed and
\* goes on with its loop, and no send is attempted for that key again
C18_LedgerBeforeSend ==
  /\ [](\A a \in BagToSet(sends) : a.reminderKey \in LedgerKeys)
  /\ [](\A i \in Dispatchers, k \in ReminderKeys :
          Sending(i, k) => k \in LedgerKeys)
  /\ [](\A a \in BagToSet(sends) : ~a.ok => Attempts(a.reminderKey) = 1)
  /\ [][ledger \subseteq ledger']_vars
  /\ [][\A i \in Dispatchers :
          SendFailsStep(i) =>
            /\ ledger' = ledger
            /\ ticks'[i].failed = ticks[i].failed
            /\ ~ticks'[i].failed
            /\ ticks'[i] = AfterCandidate(ticks[i])]_vars

\* the send for subscriber 7, lesson 2026-02-13 #2, lead time 1 has failed;
\* the entry is in the ledger, and a tick that came to that key afterwards
\* (the message for lead time 2 was sent by an earlier one) has passed it
\* without sending and is at the subscriber's next lead time
C18_Witness ==
  /\ wall = 2
  /\ \E a \in BagToSet(sends) :
       /\ ~a.ok /\ a.userId = "7" /\ a.daysBefore = 1
       /\ a.reminderKey \in LedgerKeys
       /\ Attempts(a.reminderKey) = 1
  /\ \E b \in BagToSet(sends) : b.ok /\ b.userId = "7" /\ b.daysBefore = 2
  /\ \E i \in Dispatchers :
       /\ ticks[i].at = "getActiveLessons" /\ ~ticks[i].failed
       /\ Head(ticks[i].work).user = U7
       /\ Head(ticks[i].work).daysBefore = 2

\* --------------------------------------------------------------- C19
\* C19: an instance has at most one tick in progress; runTick called while a
\* tick of the instance is in progress returns at once: the tick in progress
\* is left where it is, nothing is read, no ledger entry is written, nothing
\* is sent
C19_TickSingleFlight ==
  /\ [](\A i \in Dispatchers :
          /\ ticks[i].inFlight <= 1
          /\ ticks[i].running <=> ticks[i].inFlight = 1
          /\ ticks[i].running <=> ticks[i].at # "idle")
  /\ [][\A i \in Dispatchers :
          (ticks[i].running /\ ~ticks[i].skipped /\ ticks'[i].skipped) =>
            /\ ticks'[i] = [ticks[i] EXCEPT !.skipped = TRUE]
            /\ ledger' = ledger /\ sends' = sends]_vars
  /\ [][\A i \in Dispatchers :
          (ticks[i].running /\ ticks'[i].at = "getReminderSubscribers") =>
            ticks'[i] = ticks[i] \/ ticks'[i] = [ticks[i] EXCEPT !.skipped = TRUE]]_vars

\* runTick was called on instance 1 while its tick was in progress; that tick
\* has since inserted a ledger entry and is sending
C19_Witness ==
  /\ ticks[1].skipped /\ ticks[1].running /\ ticks[1].inFlight = 1
  /\ ticks[1].at = "sendText"
  /\ ticks[2] = NoTick

\* --------------------------------------------------------------- C20
\* some configured lesson start time equals hhmm
StartsAt(hhmm) == \E n \in DOMAIN lessonStartTimes : lessonStartTimes[n] = hhmm

\* C20: a tick that finds no configured start time equal to the current
\* HH:MM stops at once: every tick past that check began in a minute that is
\* a start time, and runTick called in any other minute leaves the instance
\* idle, the ledger and the sends as they were
C20_NoStartTimeNoWork ==
  /\ [](\A i \in Dispatchers :
          ticks[i].at # "idle" => StartsAt(ticks[i].now.hhmm))
  /\ [][\A i \in Dispatchers :
          (/\ ~ticks[i].running
           /\ ticks'[i] # ticks[i]
           /\ ~StartsAt(Minutes[wall].hhmm)) =>
            /\ ticks'[i] = [NoTick EXCEPT !.now = Minutes[wall]]
            /\ ledger' = ledger /\ sends' = sends]_vars

\* it is 10:01, no lesson starts, and runTick of instance 1 has returned
\* without going past the check, after an earlier tick at 10:00 had sent
C20_Witness ==
  /\ wall = 3
  /\ ticks[1] = [NoTick EXCEPT !.now = Minutes[3]]
  /\ ~StartsAt(Minutes[3].hhmm)
  /\ sends # EmptyBag

\* --------------------------------------------------------------- C21
\* the four spellings the specification names
IvanovAB == << "I", "v", "a", "n", "o", "v", " ", "A", ".", "B", "." >>

IvanovLowerSpaced == << "i", "v", "a", "n", "o", "v", " ", "a", " ", "b" >>

IvanovUpperDotSpace ==
  << "I", "V", "A", "N", "O", "V", " ", "A", ".", " ", "B", "." >>

IvanovFull ==
  << "I", "v", "a", "n", "o", "v", " ", "A", "n", "d", "r", "e", "y", " ",
     "B", "o", "r", "i", "s", "o", "v", "i", "c", "h" >>

IvanovKey == << "i", "v", "a", "n", "o", "v", ":", "a", "b" >>

\* C21: the identity key does not depend on case, dots or spacing and is the
\* same for the full-name form and the initials form: every spelling of the
\* name, the four named ones among them, gets surname ":" first-name initial
\* middle-name initial
C21_KeyOfEverySpelling ==
  /\ { IvanovAB, IvanovLowerSpaced, IvanovUpperDotSpace } \subseteq InitialsForms
  /\ IvanovFull \in FullNameForms
  /\ (done /\ arg \in InitialsForms \cup FullNameForms) => out = IvanovKey

\* the full name has been normalised
C21_Witness == done /\ arg = IvanovFull /\ out = IvanovKey

\* --------------------------------------------------------------- C22
\* the records given to getActiveTeachers that share the key
SameKey(key) ==
  { arg[k] : k \in { i \in DOMAIN arg : teacherMatchKey(arg[i].name) = key } }

RowHasDate(r) ==
  arg.rows[r] # <<>> /\ parseDayCellHtml(arg.rows[r][1]).date # NoDate

\* the td that lesson k was read from
SlotOf(k) ==
  LET r == out.from[k]
  IN arg.rows[r][(IF RowHasDate(r) THEN 1 ELSE 0) + 1 + out.lessons[k].columnIndex]

\* the row the specification gives as example: date cell 13.02.2026 / Fr-1,
\* lesson number 2, one slot with a subject and one slot of class nul
ExampleRow == << DayCell13, NumberCell("2"), SlotMath, SlotNul >>

\* C23: a lesson is emitted for a slot only when a date is resolved and the
\* subject of the slot is not empty; a slot of class nul never gives a
\* lesson; the scan of a page never stops before its last row, whatever the
\* rows hold; the example row alone gives exactly one lesson, dated
\* 2026-02-13, with lessonNumber 2
C23_EmitsOnlyDatedSubjects ==
  /\ \A k \in DOMAIN out.lessons :
       /\ out.lessons[k].date # NoDate
       /\ out.lessons[k].subject # <<>>
       /\ ~SlotOf(k).nul
  /\ Len(out.from) = Len(out.lessons)
  /\ ~done => (out.row \in DOMAIN arg.rows \/ out.row = Len(arg.rows) + 1)
  /\ done => out.row = Len(arg.rows) + 1
  /\ (done /\ arg.kind = "group" /\ arg.rows = << ExampleRow >>) =>
       /\ Len(out.lessons) = 1
       /\ out.lessons[1].date = << 2026, 2, 13 >>
       /\ out.lessons[1].lessonNumber = 2

\* the example row has been parsed: its first slot gave the one lesson
C23_Witness ==
  /\ done /\ arg.kind = "group"
  /\ arg.rows = << ExampleRow >>
  /\ Len(out.lessons) = 1
  /\ out.lessons[1].subject = << "M", "a", "t", "h" >>
  /\ out.lessons[1].columnIndex = 1

\* --------------------------------------------------------------- C24
\* the nearest row at or above r whose first cell holds a parsable date;
\* 0 when there is none
NearestDatedRow(r) ==
  LET dated == { q \in 1..r : RowHasDate(q) }
  IN IF dated = {} THEN 0 ELSE CHOOSE q \in dated : \A p \in dated : p <= q

\* C24: every emitted lesson carries the date and the day label of the
\* nearest row at or above it whose first cell holds a parsable date, so rows
\* above the first date cell emit nothing; the carried date is that of the
\* nearest date cell scanned, whether or not its row emitted a lesson
C24_DayCarryForward ==
  /\ \A k \in DOMAIN out.lessons :
       LET q == NearestDatedRow(out.from[k])
       IN /\ q # 0
          /\ out.lessons[k].date = parseDayCellHtml(arg.rows[q][1]).date
          /\ out.lessons[k].dayLabel = parseDayCellHtml(arg.rows[q][1]).dayLabel
  /\ LET q == NearestDatedRow(out.row - 1)
     IN IF q = 0 THEN out.currentDate = NoDate
        ELSE /\ out.currentDate = parseDayCellHtml(arg.rows[q][1]).date
             /\ out.currentDayLabel = parseDayCellHtml(arg.rows[q][1]).dayLabel

\* a row without a date cell has emitted a lesson dated by the row above it,
\* whose date cell stood alone and emitted nothing, not by the first row
C24_Witness ==
  /\ done /\ Len(arg.rows) = 3
  /\ arg.rows[1] = ExampleRow
  /\ arg.rows[2] = << DayCell14 >>
  /\ ~RowHasDate(3)
  /\ \E k \in DOMAIN out.lessons :
       /\ out.from[k] = 3
       /\ out.lessons[k].date = << 2026, 2, 14 >>

\* --------------------------------------------------------------- C25
\* the teacher code of the page, or "unknown"
CodeOrUnknown == IF arg.source.code # <<>> THEN arg.source.code ELSE << "u", "n", "k", "n", "o", "w", "n" >>

\* C25 as stated: a teacher-page lesson without a group name has the
\* groupCode teacher-scoped:<teacherCode-or-unknown>:<columnIndex>, and no
\* groupCode of a teacher-page lesson is the code of a group of the roster
C25_TeacherScopedForm ==
  arg.kind = "teacher" =>
    \A k \in DOMAIN out.lessons :
      /\ out.lessons[k].groupName = <<>> =>
           out.lessons[k].groupCode =
             << "t", "e", "a", "c", "h", "e", "r", "-", "s", "c", "o", "p", "e", "d", ":" >> \o CodeOrUnknown
               \o << ":" >> \o NumChars(out.lessons[k].columnIndex)
      /\ out.lessons[k].groupCode \notin RealGroupCodes

\* C25, amended: a teacher-page lesson without a group name has the groupCode
\* tp:<teacherCode-or-unknown>:<columnIndex>, and no groupCode of a
\* teacher-page lesson is the code of a group of the roster
C25_SyntheticGroupCode ==
  /\ RealGroupCodes = { << "1", "0", "1" >>, << "7" >> }
  /\ arg.kind = "teacher" =>
       \A k \in DOMAIN out.lessons :
         /\ out.lessons[k].groupName = <<>> =>
              out.lessons[k].groupCode =
                << "t", "p", ":" >> \o CodeOrUnknown
                  \o << ":" >> \o NumChars(out.lessons[k].columnIndex)
         /\ out.lessons[k].groupCode \notin RealGroupCodes

\* the page of a teacher whose code reads like a group code has given a
\* lesson without a group name, and a lesson of a group whose name reads like
\* a group code
C25_Witness ==
  /\ done /\ arg.kind = "teacher" /\ arg.source.code \in RealGroupCodes
  /\ \E k \in DOMAIN out.lessons :
       /\ out.lessons[k].groupName = <<>>
       /\ out.lessons[k].groupCode = << "t", "p", ":", "1", "0", "1", ":", "2" >>
  /\ \E k \in DOMAIN out.lessons :
       /\ out.lessons[k].groupName \in RealGroupCodes
       /\ out.lessons[k].groupCode = << "t", "p", ":", "1", "0", "1" >>

\* ------------------------------------------------------------------- C26
\* the pages of the teacher side: the roster and the page of teacher 7
TeacherSidePaths == { "cp.htm", "cp7.htm" }

\* the errors fetchHtml throws for the pages of the teacher side
TeacherSideErrors == { FetchError(buildUrl(path)) : path \in TeacherSidePaths }

\* C26: a failed fetch of the teacher roster or of a teacher page does not
\* fail the run: no run is ever in its catch block from its fetch phase, or
\* carries the error of a teacher-side page, unless a group-side fetch was
\* exhausted; after a failed roster the run saves the lessons of the group
\* pages only, with the teachers those lessons name; a failed teacher page
\* gives a chunk without lessons; and a run that returns ok after such a
\* failure has promoted its snapshot and is recorded as success.
C26_TeacherFetchFailureTolerated ==
  /\ [](/\ lastError \notin TeacherSideErrors
        /\ (pc = "finishFailed" /\ failedAt = "fetch")
             => exhausted \cap { "cg.htm", "cg101.htm" } # {})
  /\ []((~running /\ returned = "ok" /\ exhausted # {})
          => /\ exhausted \subseteq TeacherSidePaths
             /\ syncRuns[syncId] = "success"
             /\ meta = syncId
             /\ lastError = "null")
  /\ [][(stage = "fetchTeachers" /\ stage' = "none" /\ "cp.htm" \in exhausted')
          => /\ pc' # "finishFailed"
             /\ payload'.lessons = scraped.groupLessons
             /\ payload'.teachers
                  = buildTeachersSnapshot(scraped.groupLessons, {})]_vars
  /\ [][(stage = "fetchAllTeacherLessons" /\ stage' = "none"
            /\ "cp7.htm" \in exhausted')
          => /\ pc' # "finishFailed"
             /\ payload'.lessons = scraped.groupLessons]_vars

\* the fetch of the teacher roster was exhausted in a run that fetched a
\* lesson from the page of group 101, and the run has returned ok with that
\* lesson promoted
C26_Witness ==
  /\ ~running /\ returned = "ok"
  /\ exhausted = { "cp.htm" }
  /\ syncRuns[syncId] = "success" /\ meta = syncId
  /\ \E row \in lessons : row.syncId = syncId

\* ------------------------------------------------------------------- C27
\* the fetchHtml calls in flight: the call run() awaits itself, the calls the
\* workers of the pool of the run await, and the calls the workers of
\* rejected pools still await
RECURSIVE Awaiting(_, _)
Awaiting(pools, k) ==
  IF k > Len(pools) THEN 0
  ELSE Cardinality({ w \in DOMAIN pools[k].workers :
                       pools[k].workers[w].st = "awaiting" })
         + Awaiting(pools, k + 1)

FetchesInFlight ==
  Cardinality({ s \in Slots : http[s].at \in { "get", "sleep" } })
    + Awaiting(orphans, 1)

\* C27: at every instant the number of page fetches in flight for the
\* SyncService instance is at most the configured concurrency limit,
\* whatever the run triggers and the fetch failures.
C27_FetchesWithinLimit == FetchesInFlight <= maxConcurrentRequests

\* ------------------------------------------------------------------- C28
\* C28: the single-flight flags are always released. Every step by which a
\* non-skipped call of run() ends (returning ok, returning failed, or
\* rejected by an error raised while the failure is recorded) leaves
\* SyncService.running false, the flag is never set while no run is at a
\* step, and a trigger is skipped only while a run is at a step; every step
\* by which a tick ends (after its work, by an early return, or by an error)
\* leaves ReminderService.running false, the flag is never set while no
\* tick is at a step, and runTick is skipped only while a tick is at a step.
C28_FlagsReleased ==
  /\ [][(inFlight' < inFlight)
          => /\ ~running'
             /\ returned' \in { "ok", "failed", "rejected" }]_vars
  /\ [](pc = "idle" => ~running)
  /\ [][(returned' = "skipped" /\ returned # "skipped") => pc # "idle"]_vars
  /\ [][\A i \in Dispatchers :
          (ticks[i].at # "idle" /\ ticks'[i].at = "idle") => ~ticks'[i].running]_vars
  /\ [](\A i \in Dispatchers : ticks[i].at = "idle" => ~ticks[i].running)
  /\ [][\A i \in Dispatchers :
          (~ticks[i].skipped /\ ticks'[i].skipped) => ticks[i].at # "idle"]_vars

\* run 2 has ended by an error raised while its failure was recorded (its
\* row is left running) and the next trigger has started run 3; a tick of
\* the server has ended by its early return and has left its flag clear
C28_Witness ==
  /\ clock = 3 /\ running /\ pc = "startSyncRun"
  /\ 2 \in DOMAIN syncRuns /\ syncRuns[2] = "running"
  /\ ticks[Server].now = Minutes[Len(Minutes)]
  /\ ~ticks[Server].running

\* ------------------------------------------------------------------- C29
\* C29: when every call a run awaits returns or fails in finite time, every
\* SyncRun row created with status running eventually has status success or
\* failed.
C29_RunningRowsAreClosed ==
  \A r \in 1..MaxRuns :
    (r \in DOMAIN syncRuns /\ syncRuns[r] = "running")
      ~> (r \in DOMAIN syncRuns /\ syncRuns[r] \in { "success", "failed" })

\* ------------------------------------------------------------------- C30
\* C30: a skipped sync trigger changes nothing: the step by which a call of
\* run() returns the skipped result adds no SyncRun row and changes none,
\* leaves the pointer and every Group, Teacher and Lesson row as they are,
\* and leaves lastError and lastResult of the instance as the run in progress
\* has set them.
C30_SkippedTriggerChangesNothing ==
  [][(returned' = "skipped" /\ returned # "skipped")
       => /\ syncRuns' = syncRuns
          /\ meta' = meta
          /\ groups' = groups /\ teachers' = teachers /\ lessons' = lessons
          /\ lastError' = lastError
          /\ lastResult' = lastResult]_vars

\* a trigger was skipped while run 2, which follows a successful run, was in
\* its catch block: lastError holds the error of run 2, lastResult the
\* result of run 1, and the row of run 2 is still running
C30_Witness ==
  /\ returned = "skipped" /\ running /\ clock = 2
  /\ pc = "finishFailed"
  /\ lastError = "error"
  /\ syncRuns = (1 :> "success") @@ (2 :> "running")
  /\ lastResult.syncId = 1

\* --------------------------------------------------------------- C31
\* this step is a call of api.sendText by instance i that resolves
SendResolvesStep(i) ==
  \E a \in BagToSet(sends') :
    /\ a.ok /\ CopiesIn(a, sends') = CopiesIn(a, sends) + 1
    /\ Sending(i, a.reminderKey)

\* every key the two loops of a tick started at now come to
KeysDue(now) ==
  LET work == WorkOf(getReminderSubscribers(Users), now)
  IN UNION { { ReminderKey(work[k], lesson) :
                 lesson \in { row \in LessonsFor(work[k]) :
                   row.lessonNumber \in activeLessonNumbers(now.hhmm) } } :
             k \in { j \in DOMAIN work : ~ReturnsBeforeAwait(work[j]) } }

\* C31: a send that fails leaves the tick in its loop: the candidates not yet
\* taken and the calls of processUserReminder not yet made stay as they
\* were, the tick is not failed, and sentCount is what it was; sentCount
\* rises by one with each send that resolves and with nothing else; a tick
\* that ends without a database error has brought every key due in its
\* minute into the ledger, whatever sends have failed in it
C31_FailedSendDoesNotStopTick ==
  /\ [][\A i \in Dispatchers :
          SendFailsStep(i) =>
            /\ ~ticks'[i].failed
            /\ IF ticks[i].cands # {}
               THEN /\ ticks'[i].at = "registerReminderSend"
                    /\ ticks'[i].cands = ticks[i].cands
                    /\ ticks'[i].work = ticks[i].work
                    /\ ticks'[i].sentCount = ticks[i].sentCount
               ELSE IF SkipWork(Tail(ticks[i].work)) # <<>>
               THEN /\ ticks'[i].at = "getActiveLessons"
                    /\ ticks'[i].work = SkipWork(Tail(ticks[i].work))
                    /\ ticks'[i].sentCount = ticks[i].sentCount
               ELSE ticks'[i].at = "idle"]_vars
  /\ [][\A i \in Dispatchers :
          (ticks[i].running /\ ticks'[i].running) =>
            ticks'[i].sentCount =
              ticks[i].sentCount + (IF SendResolvesStep(i) THEN 1 ELSE 0)]_vars
  /\ [][\A i \in Dispatchers :
          (ticks[i].running /\ ~ticks'[i].running /\ ~ticks'[i].failed)
            => KeysDue(ticks[i].now) \subseteq { e.reminderKey : e \in ledger' }]_vars

\* at 10:00 of 2026-02-12 instance 1 alone has ticked, nothing was due the
\* day before: its send to subscriber 7 for lead time 1 failed, the tick went
\* on, its send to subscriber 7 for lead time 2 resolved and is the one send
\* counted, and the tick has come to the lessons of subscriber 8
C31_Witness ==
  /\ wall = 2 /\ ticks[2] = NoTick
  /\ LedgerKeys \subseteq KeysDue(Minutes[2])
  /\ ticks[1].running /\ ticks[1].sentCount = 1
  /\ ticks[1].at = "registerReminderSend"
  /\ Head(ticks[1].work).user = U8
  /\ BagCardinality(sends) = 2
  /\ \E a \in BagToSet(sends), b \in BagToSet(sends) :
       /\ ~a.ok /\ a.userId = "7" /\ a.daysBefore = 1
       /\ b.ok /\ b.userId = "7" /\ b.daysBefore = 2

\* --------------------------------------------------------------- C32
\* instance i is at its await of registerReminderSend and this step ends it
RegisterStep(i) ==
  /\ ticks[i].at = "registerReminderSend"
  /\ ticks'[i] # ticks[i]
  /\ ticks'[i].skipped = ticks[i].skipped

\* C32: an await of registerReminderSend ends in one of three ways.  The key
\* is in the ledger: the ledger and the sends stay as they are, the tick is
\* not failed and goes on with its next candidate.  The insert throws
\* another error: the ledger and the sends stay as they are, the tick is
\* over with the error logged, the flag is clear and runTick has returned.
\* Otherwise the entry is inserted and the send of that lesson begins.
C32_RegisterOutcomes ==
  [][\A i \in Dispatchers :
       RegisterStep(i) =>
         \/ /\ ticks'[i].failed /\ ticks'[i].error = "registerReminderSend"
            /\ ticks'[i].at = "idle" /\ ~ticks'[i].running
            /\ ticks'[i].inFlight = ticks[i].inFlight - 1
            /\ ledger' = ledger /\ sends' = sends
         \/ /\ ~ticks'[i].failed /\ ticks'[i].error = ""
            /\ ledger' = ledger /\ sends' = sends
            /\ ticks'[i].sending = {}
            /\ \E lesson \in ticks[i].cands :
                 /\ ReminderKey(Head(ticks[i].work), lesson) \in LedgerKeys
                 /\ ticks'[i] =
                      AfterCandidate([ticks[i] EXCEPT !.cands = @ \ { lesson }])
         \/ /\ ~ticks'[i].failed /\ ticks'[i].at = "sendText"
            /\ sends' = sends
            /\ \E lesson \in ticks[i].cands :
                 /\ ReminderKey(Head(ticks[i].work), lesson) \notin LedgerKeys
                 /\ ledger' = ledger \cup { LedgerEntry(Head(ticks[i].work), lesson) }
                 /\ ticks'[i].sending = { lesson }]_vars

\* at 10:00 of 2026-02-12 instance 1 has inserted the entry of subscriber 7,
\* lead time 1, and is sending; an insert of instance 2 has thrown an error
\* other than 11000: its tick is over with the error logged, nothing was
\* sent, and the ledger holds the one entry of instance 1
C32_Witness ==
  /\ wall = 2
  /\ ticks[1].at = "sendText" /\ Head(ticks[1].work).daysBefore = 1
  /\ Head(ticks[1].work).user = U7
  /\ ticks[2].at = "idle" /\ ticks[2].failed /\ ~ticks[2].running
  /\ ticks[2].error = "registerReminderSend"
  /\ sends = EmptyBag
  /\ Cardinality(ledger) = 1
  /\ \E lesson \in ticks[1].sending :
       LedgerKeys = { ReminderKey(Head(ticks[1].work), lesson) }

\* --------------------------------------------------------------- C33
\* C33: every entry of the reminder log is in the log, unchanged, after
\* every step of a tick and of a sync run (the writes of a run, the
\* promotion, the three garbage collections and the retention sweep
\* included); the log changes only by the insert of one entry whose key it
\* did not hold, made by a tick at its await of registerReminderSend; and
\* the log never holds two entries of one key
C33_LedgerOnlyGrows ==
  /\ [][\A e \in ledger : e \in ledger']_vars
  /\ [][LedgerKeys \subseteq { e.reminderKey : e \in ledger' }]_vars
  /\ [][ledger' # ledger =>
          \E e \in ledger' :
            /\ ledger' = ledger \cup { e }
            /\ e.reminderKey \notin LedgerKeys
            /\ ticks[Server].at = "registerReminderSend"
            /\ ticks'[Server].at = "sendText"
            /\ pc' = pc /\ lessons' = lessons /\ meta' = meta]_vars
  /\ [](\A e \in ledger, f \in ledger : e.reminderKey = f.reminderKey => e = f)

\* run 2 has been promoted, the rows of run 1 are collected, the retention
\* sweep has deleted the lessons of 2026-02-13, and the two entries the
\* reminder log held for subscriber 7 before the run, the one of the lesson of
\* 2026-02-13 included, are in it
C33_Witness ==
  /\ meta = 2 /\ 2 \in DOMAIN syncRuns /\ syncRuns[2] = "success"
  /\ pc = "idle"
  /\ \A row \in lessons : row.syncId = 2 /\ ~IsoLt(row.date, <<2026, 2, 14>>)
  /\ lessons # {}
  /\ lastResult.deletedCount > 0
  /\ ledger = { LedgerEntry(PastItem(d), PastLessons[d]) : d \in DOMAIN PastLessons }

\* --------------------------------------------------------------- C34
\* the arrays a reminderDaysBefore field is tried with
MaxDays == 3

DayLists == UNION { [1..n -> 0..3] : n \in 0..MaxDays }

\* daysBeforeList holds each of 1 and 2 that the array holds, once, and
\* nothing else
DaysBeforeListIgnores ==
  \A list \in DayLists :
    LET days == daysBeforeList([reminderDaysBefore |-> list])
    IN /\ { days[k] : k \in DOMAIN days }
            = { list[k] : k \in DOMAIN list } \cap { 1, 2 }
       /\ \A j, k \in DOMAIN days : j < k => days[j] < days[k]

\* the calls of a tick started at now: one for every enabled subscriber and
\* every lead time of the subscriber's array that is 1 or 2, none twice,
\* each with the date of today plus the lead time
WorkIsLeadTimesOnce ==
  \A m \in DOMAIN Minutes :
    LET now == Minutes[m]
        work == WorkOf(getReminderSubscribers(Users), now)
        enabled == { Users[k] : k \in { j \in DOMAIN Users : Users[j].reminderEnabled } }
    IN /\ { << work[k].user, work[k].daysBefore >> : k \in DOMAIN work }
            = { << u, d >> \in enabled \X { 1, 2 } :
                  \E k \in DOMAIN u.reminderDaysBefore : u.reminderDaysBefore[k] = d }
       /\ \A j, k \in DOMAIN work :
            (work[j].user = work[k].user /\ work[j].daysBefore = work[k].daysBefore)
              => j = k
       /\ \A k \in DOMAIN work :
            work[k].targetDate = << now.isoDate[1], now.isoDate[2],
                                    now.isoDate[3] + work[k].daysBefore >>

\* C34: a tick goes through the calls of WorkIsLeadTimesOnce in order, each
\* at most once; every entry it inserts is for an enabled subscriber and a
\* lead time of 1 or 2 from the subscriber's array, for a lesson of the
\* active snapshot dated today plus the lead time, today being the date the
\* tick read at its start, whose lessonNumber starts at the minute the tick
\* read at its start
C34_LeadTimesAndTargets ==
  /\ [](DaysBeforeListIgnores /\ WorkIsLeadTimesOnce)
  /\ [](\A i \in Dispatchers :
          ticks[i].running =>
            LET all == WorkOf(getReminderSubscribers(Users), ticks[i].now)
            IN \E n \in 0..Len(all) :
                 ticks[i].work = SubSeq(all, n + 1, Len(all)))
  /\ [][\A i \in Dispatchers :
          (ticks[i].running /\ ticks[i].work # <<>> /\ ticks'[i].running
             /\ ticks'[i].work # ticks[i].work)
            => Len(ticks'[i].work) < Len(ticks[i].work)]_vars
  /\ [][\A i \in Dispatchers : \A e \in ledger' \ ledger :
          ticks[i].at = "registerReminderSend" /\ ticks'[i].at = "sendText"
            => /\ \E k \in DOMAIN Users :
                    /\ Users[k].reminderEnabled
                    /\ Users[k].userId = e.userId
                    /\ \E j \in DOMAIN Users[k].reminderDaysBefore :
                         Users[k].reminderDaysBefore[j] = e.daysBefore
               /\ e.daysBefore \in { 1, 2 }
               /\ e.date = << ticks[i].now.isoDate[1], ticks[i].now.isoDate[2],
                              ticks[i].now.isoDate[3] + e.daysBefore >>
               /\ lessonStartTimes[e.lessonNumber] = ticks[i].now.hhmm
               /\ \E row \in lessons :
                    /\ row.syncId = meta
                    /\ row.date = e.date /\ row.lessonNumber = e.lessonNumber]_vars

\* a tick started at 10:00 of 2026-02-12 has made the calls for subscriber 7
\* with lead time 1 and lead time 2, one after the other, and is at the call
\* for subscriber 8: the ledger holds for subscriber 7 the entry of lesson 2
\* of 2026-02-13 with lead time 1 and that of lesson 2 of 2026-02-14 with
\* lead time 2, and no entry for lesson 1 of 2026-02-13, which is in the
\* snapshot and starts at 08:00
C34_Witness ==
  /\ wall = 2
  /\ LessonRow(1, LessonEarly) \in lessons /\ meta = 1
  /\ \E i \in Dispatchers :
       /\ ticks[i].running /\ ticks[i].now = Minutes[2]
       /\ ticks[i].work # <<>>
       /\ Head(ticks[i].work).user = U8
  /\ { << e.userId, e.daysBefore, e.date, e.lessonNumber >> : e \in ledger }
       = { << "7", 1, <<2026, 2, 13>>, 2 >>, << "7", 2, <<2026, 2, 14>>, 2 >> }

\* --------------------------------------------------------------- C35
\* C35: the key teacherMatchKey of reminderService.js returns for a teacher
\* text is the key teacherMatchKey of botService.js returns for it, for
\* every text of NameForms: initials written with and without dots and
\* spaces, in either case, full names, a surname alone, blank texts
C35_TeacherKeysAgree ==
  /\ done => out = botTeacherMatchKey(arg)
  /\ teacherMatchKey(arg) = botTeacherMatchKey(arg)

\* the reminder service has computed the key of a full name of three words:
\* surname, colon, the initials of the second and third word, which is the
\* key the conversational layer computes, and not the surname with the first
\* two letters of the second word
C35_Witness ==
  /\ done /\ arg \in FullNameForms
  /\ out = botTeacherMatchKey(arg)
  /\ Len(out) > 3
  /\ out[Len(out) - 2] = ":"
  /\ out # botTeacherMatchKeyTwoLetters(arg)

\* ------------------------------------------ before the first promotion
\* saveSnapshot of the first run has written the rows of a scrape (a group,
\* its teacher, the lessons of 2026-02-13 and 2026-02-14) and is about to
\* write the pointer document; it is 10:00 of 2026-02-12; the reader and the
\* reminder service of the server are idle; no further run is started
InitCold ==
  LET ll == <<LessonNext>>
      pl == [groups |-> { [code |-> "101", name |-> "IS-11"] },
             teachers |-> buildTeachersSnapshot(ll,
                            { [code |-> "7", name |-> "Ivanov A.B."] }),
             lessons |-> ll]
  IN /\ groups = { [code |-> g.code, name |-> g.name, lastSeenSyncId |-> 1] :
                     g \in pl.groups }
     /\ teachers = { [key |-> t.key, code |-> t.code, name |-> t.name,
                      lastSeenSyncId |-> 1] : t \in pl.teachers }
     /\ lessons = { LessonRow(1, ll[i]) : i \in DOMAIN ll }
     /\ meta = NoRun
     /\ syncRuns = (1 :> "running")
     /\ running = TRUE /\ lastError = "null" /\ lastResult = "null"
     /\ pc = "promote" /\ syncId = 1 /\ clock = 1
     /\ payload = pl /\ pending = {} /\ cleanup = NoCleanup
     /\ rpc = "idle" /\ rkind = "groups" /\ rmeta = NoRun
     /\ rresult = {} /\ rsawOther = FALSE
     /\ startView = View(NoRun)
     /\ failedAt = "none"
     /\ ptrWrites = 0
     /\ reclaimed = {}
     /\ runLimit = 1
     /\ inFlight = 1
     /\ returned = "none"
     /\ InitFetchIdle
     /\ ticks = [i \in Dispatchers |-> NoTick]
     /\ ledger = {}
     /\ sends = EmptyBag
     /\ wall = 2
     /\ InitCallIdle

\* the dates getIsoDateInTimezone returns to a sweep made on its own
ColdTodays == { <<2026, 2, 16>> }

\* one call of repository.deleteActiveLessonsOlderThan(keepFromDate) made on
\* the database as it is; out is the deleted count it returns
DeleteActiveLessonsOlderThanCall(T) ==
  /\ ~done
  /\ lessons' = DeleteActiveLessonsOlderThan(lessons, meta, shiftIsoDate(T, -1))
  /\ arg' = << meta, shiftIsoDate(T, -1) >>
  /\ out' = << Cardinality(lessons) - Cardinality(lessons') >>
  /\ done' = TRUE
  /\ UNCHANGED <<groups, teachers, meta, syncRuns, svcVars, readerVars, histVars>>
  /\ UNCHANGED <<callVars, fetchVars, poolVars, remVars>>

NextCold ==
  \/ RunSkipped
  \/ Promote
  \/ GcLessonsStep
  \/ GcGroupsStep
  \/ GcTeachersStep
  \/ \E T \in Todays : CleanupOldLessons(T)
  \/ StepThrows
  \/ FinishSuccess
  \/ FinishSuccessThrows
  \/ FinishFailed
  \/ FinishFailedThrows
  \/ ReadMeta
  \/ Query
  \/ \E T \in ColdTodays : DeleteActiveLessonsOlderThanCall(T)
  \/ RunTick(Server)
  \/ TickSkipped(Server)
  \/ GetReminderSubscribers(Server)
  \/ GetActiveLessons(Server)
  \/ RegisterReminderSend(Server)
  \/ SendText(Server)
  \/ SendTextFails(Server)
  \/ TickThrows(Server)
  \/ MinutePasses

SpecCold == InitCold /\ [][NextCold]_vars

\* --------------------------------------------------------------- C36
\* the dates a read of lessons is filtered by
ColdDates == { NoDate, <<2026, 2, 13>>, <<2026, 2, 14>> }

\* C36: while no pointer document exists, whatever rows the collections
\* hold: getActiveGroups, getActiveTeachers and getActiveLessons return
\* nothing, and a read that found no pointer has returned nothing;
\* deleteActiveLessonsOlderThan deletes no lesson and returns 0; no reminder
\* log entry is inserted, no message is sent, and no tick comes to
\* registerReminderSend or to sendText
C36_NothingBeforeFirstPromotion ==
  /\ [](meta = NoRun =>
          /\ ReadGroups(groups, meta) = {}
          /\ ReadTeachers(teachers, meta) = {}
          /\ \A d \in ColdDates : ReadLessons(lessons, meta, d) = {}
          /\ \A T \in ColdTodays :
               DeleteActiveLessonsOlderThan(lessons, meta, shiftIsoDate(T, -1))
                 = lessons)
  /\ []((rpc = "done" /\ rmeta = NoRun) => rresult = {})
  /\ [][(meta = NoRun /\ rpc' # rpc /\ rpc # "meta")
          => (rpc' = "done" /\ rresult' = {})]_vars
  /\ [][(meta = NoRun /\ ~done /\ done')
          => (lessons' = lessons /\ out' = << 0 >>)]_vars
  /\ [](meta = NoRun =>
          /\ sends = EmptyBag /\ ledger = {}
          /\ \A i \in Dispatchers :
               /\ ticks[i].at \notin { "registerReminderSend", "sendText" }
               /\ ticks[i].cands = {} /\ ticks[i].sending = {})

\* the rows of the first run are written and no pointer document exists: a
\* read of lessons has returned nothing, a sweep made with keepFromDate
\* 2026-02-15 has deleted nothing and returned 0, and a tick started at
\* 10:00 of 2026-02-12 has made the calls for subscriber 7, the one for
\* lead time 2 and the lesson of 2026-02-14 included, and is at subscriber 8
\* with nothing logged and nothing sent
C36_Witness ==
  /\ meta = NoRun
  /\ LessonRow(1, LessonNext) \in lessons
  /\ groups # {} /\ teachers # {}
  /\ rpc = "done" /\ rkind = "lessons" /\ rresult = {}
  /\ done /\ out = << 0 >> /\ arg = << NoRun, <<2026, 2, 15>> >>
  /\ ticks[Server].running /\ ticks[Server].now = Minutes[2]
  /\ ticks[Server].at = "getActiveLessons"
  /\ ticks[Server].work # <<>>
  /\ Head(ticks[Server].work).user = U8
  /\ sends = EmptyBag /\ ledger = {}

====
